---- MODULE Spec2Model ----
(***************************************************************************)
(* agent-smith: the pipeline orchestrator (AgentOrchestrator) over its     *)
(* relational store.  One state of the model is the content of the store   *)
(* (learning_goals, plan_items, resources, quiz_items, episodes), the      *)
(* vector index, and the position of every run_day call.                   *)
(*                                                                         *)
(* A run_day call is a chain of steps, one per commit of the code:         *)
(*   start -> plan -> research -> curate -> quiz -> reflect -> episode     *)
(* Each step is the agent call of the stage followed by the commit of its  *)
(* output; calls of different server processes interleave between steps.   *)
(* Texts are sequences of one-character strings, so that strip, split and  *)
(* slicing are computed as Python computes them.                           *)
(***************************************************************************)
EXTENDS Integers, Sequences, FiniteSets, TLC

VARIABLES goals, planItems, resources, quizItems, episodes, vectorIndex, runs,
          submits, calls

vars == <<goals, planItems, resources, quizItems, episodes, vectorIndex, runs,
         submits, calls>>

store == <<goals, planItems, resources, quizItems, episodes>>

(***************************************************************************)
(* Bounds of the model.                                                    *)
(***************************************************************************)
MaxRuns == 2

MaxGoals == 2

MaxSubmits == 2

MaxCalls == 1

(***************************************************************************)
(* Text helpers (Python str semantics on character sequences).             *)
(***************************************************************************)
WS == {" ", "\n"}

RECURSIVE LStrip(_)
LStrip(s) == IF s # <<>> /\ Head(s) \in WS THEN LStrip(Tail(s)) ELSE s

RECURSIVE RStrip(_)
RStrip(s) == IF s # <<>> /\ s[Len(s)] \in WS THEN RStrip(SubSeq(s, 1, Len(s) - 1)) ELSE s

\* str.strip()
Strip(s) == RStrip(LStrip(s))

\* s[:n]
Take(s, n) == SubSeq(s, 1, IF Len(s) < n THEN Len(s) ELSE n)

\* s.split(c)[0]
RECURSIVE SplitFirst(_, _)
SplitFirst(s, c) ==
  IF s = <<>> \/ Head(s) = c THEN <<>> ELSE <<Head(s)>> \o SplitFirst(Tail(s), c)

Digit(d) == <<"0", "1", "2", "3", "4", "5", "6", "7", "8", "9">>[d + 1]

\* str(n) for a natural number
RECURSIVE IntStr(_)
IntStr(n) == IF n < 10 THEN <<Digit(n)>> ELSE IntStr(n \div 10) \o <<Digit(n % 10)>>

\* sep.join(parts)
RECURSIVE Join(_, _)
Join(parts, sep) ==
  IF parts = <<>> THEN <<>>
  ELSE IF Len(parts) = 1 THEN parts[1]
  ELSE parts[1] \o sep \o Join(Tail(parts), sep)

Rep(c, n) == [i \in 1..n |-> c]

(***************************************************************************)
(* Optional values: None is the empty sequence, a value v is <<v>>.        *)
(***************************************************************************)
None == <<>>

Some(v) == <<v>>

(***************************************************************************)
(* models.py: the enumerations.                                            *)
(***************************************************************************)
GoalStatus == {"new", "planning", "active", "complete"}

PlanStatus == {"pending", "in_progress", "done", "blocked"}

QuizStatus == {"draft", "delivered", "answered"}

\* Position of a status in the lifecycle new < planning < active < complete.
StatusRank(s) ==
  CASE s = "new" -> 0 [] s = "planning" -> 1 [] s = "active" -> 2 [] s = "complete" -> 3

(***************************************************************************)
(* Inputs from the external collaborators (completion provider, search     *)
(* providers), drawn from small sets.                                      *)
(***************************************************************************)
\* Raw completions of the reflection prompt: empty after strip; no first
\* sentence; two short sentences; a first sentence longer than 60 characters
\* in a text longer than 200 characters whose 200th character is a space.
BlankReflection == <<" ">>

DotReflection == <<".">>

ShortReflection == <<"A", "b", ".", " ", "C", "d", ".", "\n">>

LongReflection == Rep("x", 61) \o <<".", " ">> \o Rep("y", 136) \o <<" ">> \o Rep("z", 5)

\* The inputs of one specification:
\*   planLens     lengths of the task list the Planner returns
\*   notes        notes of a planner payload
\*   webHits      numbers of general-web hits per plan item
\*   summaries    raw completions of the curator prompt
\*   parsed       numbers of records the tutor's parser extracts
\*   reflections  raw completions of the reflection prompt
\*   days         day numbers of the run_day calls
\*   procs        server processes, each inside at most one run_day call
\*   faults       the search provider whose call raises, or none
\*   goalIds      goal ids of the run_day calls
\* One server process (the calls are served one after the other).
PipelineInputs ==
  [planLens |-> {0, 2}, notes |-> {<<>>}, webHits |-> {0},
   summaries |-> {<<"S", "u", "m", "\n">>}, parsed |-> {1},
   reflections |-> {BlankReflection, ShortReflection}, days |-> {1, 2},
   procs |-> {"p1"}, faults |-> {"none"}, goalIds |-> 1..(MaxGoals + 1)]

\* Two server processes on the same store, calls for one day.
ConcurrentInputs ==
  [planLens |-> {1}, notes |-> {<<>>}, webHits |-> {0},
   summaries |-> {<<"S", "u", "m", "\n">>}, parsed |-> {1},
   reflections |-> {ShortReflection}, days |-> {1},
   procs |-> {"p1", "p2"}, faults |-> {"none"},
   goalIds |-> 1..(MaxGoals + 1)]

\* One server process, every shape of reflection text.
StoreInputs ==
  [planLens |-> {1}, notes |-> {<<>>}, webHits |-> {0},
   summaries |-> {<<"S", "u", "m", "\n">>}, parsed |-> {1},
   reflections |-> {BlankReflection, DotReflection, ShortReflection, LongReflection},
   days |-> {1, 2}, procs |-> {"p1"}, faults |-> {"none"},
   goalIds |-> 1..(MaxGoals + 1)]

\* Learner answers: the reference answer of the first parsed record, the same
\* words in capitals, and a text that shares no word with it.
RightAnswer == <<"a", "1">>

LoudAnswer == <<"A", "1">>

WrongAnswer == <<"z", "z">>

\* One server process: run_day calls for goal 1 and submit_quiz_answer calls.
\*   answers      texts the learner submits
ApiInputs ==
  [planLens |-> {1}, notes |-> {<<>>}, webHits |-> {0},
   summaries |-> {<<"S", "u", "m", "\n">>}, parsed |-> {1},
   reflections |-> {ShortReflection}, days |-> {1},
   procs |-> {"p1"}, answers |-> {RightAnswer, WrongAnswer}, faults |-> {"none"},
   goalIds |-> {1}]

\* One server process, three tasks a day and three web hits per task (twelve
\* resources a run), search providers that fail.
ResearchInputs ==
  [planLens |-> {3}, notes |-> {<<>>}, webHits |-> {3},
   summaries |-> {<<"S", "u", "m", "\n">>}, parsed |-> {1},
   reflections |-> {ShortReflection}, days |-> {1},
   procs |-> {"p1"}, faults |-> {"none", "duckduckgo", "wikipedia"},
   goalIds |-> {1}]

\* A completion of the curator prompt longer than 150 characters.
LongSummary == Rep("s", 151)

\* One server process; the tutor's parser finds no record, two records, or
\* more records than num_questions.
TutorInputs ==
  [planLens |-> {1}, notes |-> {<<>>}, webHits |-> {0},
   summaries |-> {<<"S", "u", "m", "\n">>, LongSummary}, parsed |-> {0, 2, 4},
   reflections |-> {BlankReflection}, days |-> {1},
   procs |-> {"p1"}, faults |-> {"none"}, goalIds |-> {1}]

\* One server process; plans of two items for two days of goal 2.
PlanInputs ==
  [planLens |-> {2}, notes |-> {<<>>}, webHits |-> {0},
   summaries |-> {<<"S", "u", "m", "\n">>}, parsed |-> {1},
   reflections |-> {BlankReflection}, days |-> {1, 2},
   procs |-> {"p1"}, faults |-> {"none"}, goalIds |-> {2}]

\* Two server processes on the same store, submit_quiz_answer calls.
AnswerInputs ==
  [procs |-> {"p1", "p2"}, answers |-> {RightAnswer, LoudAnswer, WrongAnswer}]

\* One server process, submit_quiz_answer and get_goal calls.
LookupInputs == [procs |-> {"p1"}, answers |-> {RightAnswer, WrongAnswer}]

(***************************************************************************)
(* The store: a table is the sequence of its rows, the primary key of a    *)
(* row is its position (autoincrement, rows are never deleted).  The field *)
(* run of a row is history, not a column: the run_day call that inserted   *)
(* the row.                                                                *)
(***************************************************************************)
Ids(table) == 1..Len(table)

\* session.add_all(rows); session.commit(): the rows get the next keys.
Insert(table, rows) == table \o rows

\* Keys given to n rows inserted into table.
NewIds(table, n) == [i \in 1..n |-> Len(table) + i]

\* A goal lookup that takes the next free key for an existing goal.
GoalExistsOffByOne(g) == g \in 1..(Len(goals) + 1)

\* session.get(LearningGoal, g) is not None
GoalExists(g) == g \in Ids(goals)

\* Steps of run_day, in the order of the code.
StageOrder == <<"plan", "research", "curate", "quiz", "reflect", "episode">>

\* run_day with the tutor called before the curator.
NextStageTutorFirst(s) ==
  CASE s = "plan" -> "research"
    [] s = "research" -> "quiz"
    [] s = "quiz" -> "curate"
    [] s = "curate" -> "reflect"
    [] s = "reflect" -> "episode"
    [] s = "episode" -> "done"

\* The step that follows step s of run_day.
NextStage(s) ==
  CASE s = "plan" -> "research"
    [] s = "research" -> "curate"
    [] s = "curate" -> "quiz"
    [] s = "quiz" -> "reflect"
    [] s = "reflect" -> "episode"
    [] s = "episode" -> "done"

\* Steps that call an agent or the completion provider, and so can fail.
AgentStages == {"plan", "research", "curate", "quiz", "reflect"}

Finished == {"done", "failed", "notfound"}

Active == {r \in Ids(runs) : runs[r].pc \notin Finished}

\* submit_quiz_answer calls between their read and their commit.
Answering == {c \in Ids(submits) : submits[c].pc = "commit"}

\* Server processes inside a call.
Busy == Cardinality(Active) + Cardinality(Answering)

(***************************************************************************)
(* Planner agent (agents/planner.py is not part of the sources at hand):   *)
(* an ordered list of {sequence, task, notes}, sequence starting at 1 and  *)
(* contiguous.                                                             *)
(***************************************************************************)
PlannerRun(k, notes) ==
  [i \in 1..k |-> [sequence |-> i, task |-> <<"t", Digit(i)>>, notes |-> notes]]

\* Plan items built without the payload's sequence: the column default, 1.
NewPlanItemsDefaultSequence(payloads, g, d, r) ==
  [i \in 1..Len(payloads) |->
     [goal_id |-> g, day_number |-> d, sequence |-> 1,
      task |-> payloads[i].task, notes |-> payloads[i].notes,
      status |-> "pending", reflection |-> None, run |-> r]]

\* run_day: the PlanItem rows built from the planner's payloads.
NewPlanItems(payloads, g, d, r) ==
  [i \in 1..Len(payloads) |->
     [goal_id |-> g, day_number |-> d, sequence |-> payloads[i].sequence,
      task |-> payloads[i].task, notes |-> payloads[i].notes,
      status |-> "pending", reflection |-> None, run |-> r]]

(***************************************************************************)
(* Researcher agent and the vector index.                                  *)
(***************************************************************************)
\* uuid4(): a value never produced before; the j-th of this upsert.
FreshVectorId(index, j) == <<"resource-", Cardinality(index) + j>>

\* ResearcherAgent.run: per plan item, web hits web and one encyclopedia hit.
RECURSIVE ResearcherHits(_, _)
ResearcherHits(planIds, web) ==
  IF planIds = <<>> THEN <<>>
  ELSE [j \in 1..(web + 1) |-> Head(planIds)] \o ResearcherHits(Tail(planIds), web)

\* An upsert that gives every resource a new id.
VectorIdAlwaysFresh(vector_id, id, index, j) == FreshVectorId(index, j)

\* _resource_payload: resource.vector_id or f"resource-{resource.id or uuid4()}"
VectorId(vector_id, id, index, j) ==
  IF vector_id # None THEN vector_id[1]
  ELSE IF id # None THEN <<"resource-id", id[1]>>
  ELSE FreshVectorId(index, j)

\* The Resource rows of the hits, after upsert_resources gave each a vector_id.
NewResources(planIds, web, g, r, index) ==
  LET hits == ResearcherHits(planIds, web)
  IN  [j \in 1..Len(hits) |->
         [goal_id |-> planItems[hits[j]].goal_id, plan_item_id |-> hits[j],
          vector_id |-> Some(VectorId(None, None, index, j)), relevance_score |-> None,
          run |-> r]]

\* What a call of the researcher gave: what it raised, the search-provider
\* calls and upsert_resources calls it made, the resources it returned.
Outcome(raised, searches, upserts, rows) ==
  [raised |-> raised, searches |-> searches, upserts |-> upserts, resources |-> rows]

\* A researcher that looks at goal.id only after searching and upserting.
ResearcherRunLateCheck(goalId, planIds, web, fault, r, index) ==
  IF fault # "none" /\ planIds # <<>>
  THEN Outcome("ProviderError", IF fault = "duckduckgo" THEN 1 ELSE 2, 0, <<>>)
  ELSE IF goalId = None THEN Outcome("InvalidState", 2 * Len(planIds), 1, <<>>)
  ELSE Outcome("none", 2 * Len(planIds), 1, NewResources(planIds, web, goalId[1], r, index))

\* ResearcherAgent.run: per plan item the general web search, then the
\* encyclopedia (no task of the model names a paper: no arXiv search); an
\* exception of a provider call leaves run.
ResearcherRun(goalId, planIds, web, fault, r, index) ==
  IF goalId = None THEN Outcome("InvalidState", 0, 0, <<>>)
  ELSE IF fault # "none" /\ planIds # <<>>
  THEN Outcome("ProviderError", IF fault = "duckduckgo" THEN 1 ELSE 2, 0, <<>>)
  ELSE Outcome("none", 2 * Len(planIds), 1, NewResources(planIds, web, goalId[1], r, index))

\* collection.upsert(ids, documents, metadatas)
Upsert(index, rows) ==
  index \cup {[id |-> rows[j].vector_id[1], goal_id |-> rows[j].goal_id] : j \in 1..Len(rows)}

(***************************************************************************)
(* Curator agent.                                                          *)
(***************************************************************************)
\* A positional decay without the floor.
ScoreNoFloor(idx) == 10 - idx

\* max(0.1, 1.0 - 0.1 * idx), in tenths.
Score(idx) == IF 10 - idx > 1 THEN 10 - idx ELSE 1

\* A curator that scores the eight resources of its prompt only.
ScoreResourcesShortlist(table, ids) ==
  [i \in Ids(table) |->
     IF \E j \in 1..Len(ids) : ids[j] = i /\ j <= 8
     THEN [table[i] EXCEPT !.relevance_score =
             Some(Score((CHOOSE j \in 1..Len(ids) : ids[j] = i) - 1))]
     ELSE table[i]]

\* CuratorAgent._score_resources followed by the commit of the scores:
\* the resource at position j of ids (0-based j - 1) gets Score(j - 1).
ScoreResources(table, ids) ==
  [i \in Ids(table) |->
     IF \E j \in 1..Len(ids) : ids[j] = i
     THEN [table[i] EXCEPT !.relevance_score =
             Some(Score((CHOOSE j \in 1..Len(ids) : ids[j] = i) - 1))]
     ELSE table[i]]

(***************************************************************************)
(* Tutor agent.                                                            *)
(***************************************************************************)
NumQuestions == 3

SummaryMax == 150

\* "Explain today's concept in your own words."
FallbackQuestion ==
  <<"E", "x", "p", "l", "a", "i", "n", " ", "t", "o", "d", "a", "y", "'", "s", " ",
    "c", "o", "n", "c", "e", "p", "t", " ", "i", "n", " ", "y", "o", "u", "r", " ",
    "o", "w", "n", " ", "w", "o", "r", "d", "s", ".">>

\* A tutor that returns every parsed record.
TutorRunUncut(parsed, summary) ==
  IF parsed = <<>>
  THEN <<[question |-> FallbackQuestion, answer |-> Take(summary, SummaryMax)]>>
  ELSE parsed

\* TutorAgent.run: the parsed records, or one synthetic record, cut to
\* num_questions.
TutorRun(parsed, summary) ==
  LET quizzes == IF parsed = <<>>
                 THEN <<[question |-> FallbackQuestion,
                         answer |-> Take(summary, SummaryMax)]>>
                 ELSE parsed
  IN  Take(quizzes, NumQuestions)

\* Records the parser extracts: n numbered question/answer lines.
ParsedRecords(n) == [i \in 1..n |-> [question |-> <<"q", Digit(i)>>, answer |-> <<"a", Digit(i)>>]]

\* run_day: the QuizItem rows built from the tutor's payloads.
NewQuizItems(payloads, g, d, r) ==
  [i \in 1..Len(payloads) |->
     [goal_id |-> g, day_number |-> d, question |-> payloads[i].question,
      answer |-> payloads[i].answer, learner_answer |-> None, is_correct |-> None,
      feedback |-> None, status |-> "delivered", run |-> r]]

\* Characters of the answers, in code-point order (digits before letters).
LowerCase ==
  <<"0", "1", "2", "3", "4", "5", "6", "7", "8", "9",
    "a", "b", "c", "d", "e", "f", "g", "h", "i", "j", "k", "l", "m",
    "n", "o", "p", "q", "r", "s", "t", "u", "v", "w", "x", "y", "z">>

UpperCase ==
  <<"0", "1", "2", "3", "4", "5", "6", "7", "8", "9",
    "A", "B", "C", "D", "E", "F", "G", "H", "I", "J", "K", "L", "M",
    "N", "O", "P", "Q", "R", "S", "T", "U", "V", "W", "X", "Y", "Z">>

\* str.lower()
Lower(s) ==
  [i \in 1..Len(s) |->
     IF \E k \in 1..Len(UpperCase) : UpperCase[k] = s[i]
     THEN LowerCase[CHOOSE k \in 1..Len(UpperCase) : UpperCase[k] = s[i]]
     ELSE s[i]]

\* str.split(): the words between runs of whitespace, one word a step.
RECURSIVE Words(_)
Words(s) ==
  LET t == LStrip(s)
      stops == {i \in 1..Len(t) : t[i] \in WS}
      end == IF stops = {} THEN Len(t) + 1
             ELSE CHOOSE i \in stops : \A j \in stops : i <= j
  IN  IF t = <<>> THEN <<>>
      ELSE <<SubSeq(t, 1, end - 1)>> \o Words(SubSeq(t, end, Len(t)))

\* set(text.lower().split())
Tokens(text) == LET w == Words(Lower(text)) IN {w[i] : i \in 1..Len(w)}

CharRank(c) == CHOOSE k \in 1..Len(LowerCase) : LowerCase[k] = c

\* s < t for Python strings
RECURSIVE TextLess(_, _)
TextLess(s, t) ==
  IF t = <<>> THEN FALSE
  ELSE IF s = <<>> THEN TRUE
  ELSE IF Head(s) = Head(t) THEN TextLess(Tail(s), Tail(t))
  ELSE CharRank(Head(s)) < CharRank(Head(t))

\* sorted(tokens)
RECURSIVE Sorted(_)
Sorted(tokens) ==
  IF tokens = {} THEN <<>>
  ELSE LET first == CHOOSE x \in tokens : \A y \in tokens : x = y \/ TextLess(x, y)
       IN  <<first>> \o Sorted(tokens \ {first})

\* score >= 0.4, in tenths
PassTenths == 4

FeedbackMax == 120

GreatJob == <<"G", "r", "e", "a", "t", " ", "j", "o", "b", "!">>

FocusOnCovering ==
  <<"F", "o", "c", "u", "s", " ", "o", "n", " ", "c", "o", "v", "e", "r", "i", "n", "g", ":", " ">>

\* An evaluation that passes only above the threshold.
EvaluateAnswerStrict(expected, given) ==
  LET expected_tokens == Tokens(expected)
      given_tokens == Tokens(given)
      overlap == expected_tokens \cap given_tokens
      n == IF Cardinality(expected_tokens) > 1 THEN Cardinality(expected_tokens) ELSE 1
      is_correct == 10 * Cardinality(overlap) > PassTenths * n
  IN  [is_correct |-> is_correct,
       feedback |-> IF is_correct THEN GreatJob
                    ELSE FocusOnCovering
                           \o Take(Join(Sorted(expected_tokens \ given_tokens), <<" ">>), FeedbackMax)]

\* TutorAgent.evaluate_answer
EvaluateAnswer(expected, given) ==
  LET expected_tokens == Tokens(expected)
      given_tokens == Tokens(given)
      overlap == expected_tokens \cap given_tokens
      n == IF Cardinality(expected_tokens) > 1 THEN Cardinality(expected_tokens) ELSE 1
      is_correct == 10 * Cardinality(overlap) >= PassTenths * n
  IN  [is_correct |-> is_correct,
       feedback |-> IF is_correct THEN GreatJob
                    ELSE FocusOnCovering
                           \o Take(Join(Sorted(expected_tokens \ given_tokens), <<" ">>), FeedbackMax)]

(***************************************************************************)
(* Reflection rewrite (_rewrite_future_plan_items).                        *)
(***************************************************************************)
FocusMax == 60

NoteMax == 200

FocusOpen == <<" ", "(", "F", "o", "c", "u", "s", ":", " ">>

NotePrefix ==
  <<"R", "e", "f", "l", "e", "c", "t", "i", "o", "n", " ", "a", "p", "p", "l", "i",
    "e", "d", " ", "o", "n", " ", "d", "a", "y", " ">>

\* A rewrite that also takes the items of the day of the call.
FutureItemsFromToday(items, g, d) ==
  {i \in Ids(items) : items[i].goal_id = g /\ items[i].day_number >= d}

\* select(PlanItem).where(goal_id == g, day_number > d)
FutureItems(items, g, d) ==
  {i \in Ids(items) : items[i].goal_id = g /\ items[i].day_number > d}

\* reflection.split(".")[0].strip()
FirstSentence(reflection) == Strip(SplitFirst(reflection, "."))

\* A rewrite that appends the whole first sentence.
FocusTaskUncut(task, firstSentence) ==
  IF firstSentence # <<>>
  THEN task \o FocusOpen \o firstSentence \o <<")">>
  ELSE task

\* item.task after the rewrite
FocusTask(task, firstSentence) ==
  IF firstSentence # <<>>
  THEN task \o FocusOpen \o Take(firstSentence, FocusMax) \o <<")">>
  ELSE task

\* f"Reflection applied on day {day_number}: {reflection[:200]}"
ReflectionNote(d, reflection) ==
  NotePrefix \o IntStr(d) \o <<":", " ">> \o Take(reflection, NoteMax)

\* item.notes after the rewrite
NotedNotes(notes, note) == Strip(Strip(notes) \o <<"\n">> \o note)

\* True when the rewrite reaches its commit.
Rewrites(items, g, d, reflection) ==
  FutureItems(items, g, d) # {} /\ reflection # <<>>

RewriteFuturePlanItems(items, g, d, reflection) ==
  IF ~Rewrites(items, g, d, reflection) THEN items
  ELSE [i \in Ids(items) |->
          IF i \in FutureItems(items, g, d)
          THEN [items[i] EXCEPT
                  !.task = FocusTask(@, FirstSentence(reflection)),
                  !.notes = NotedNotes(@, ReflectionNote(d, reflection))]
          ELSE items[i]]

(***************************************************************************)
(* Episode.                                                                *)
(***************************************************************************)
\* "\n".join(f"{item.sequence}. {item.task}" for item in plan_items)
PlannerSummary(seqs, tasks) ==
  Join([i \in 1..Len(tasks) |-> IntStr(seqs[i]) \o <<".", " ">> \o tasks[i]], <<"\n">>)

\* "; ".join(q.question for q in quiz_items)
TutorSummary(questions) == Join(questions, <<";", " ">>)

\* An upsert by (goal, day): the Episode of an earlier run is replaced.
AddEpisodeUpsertByDay(table, episode) ==
  LET same == {i \in Ids(table) : /\ table[i].goal_id = episode.goal_id
                                  /\ table[i].day_number = episode.day_number}
  IN  IF same = {} THEN Insert(table, <<episode>>)
      ELSE [i \in Ids(table) |-> IF i \in same THEN episode ELSE table[i]]

\* session.add(episode); session.commit()
AddEpisode(table, episode) == Insert(table, <<episode>>)

(***************************************************************************)
(* A run_day call in progress: the session-local values of the code, and   *)
(* (committed, planLen, quizLen) the history of the call.                  *)
(***************************************************************************)
NewRun(g, d, pc, previous) ==
  [pc |-> pc, goal_id |-> g, day_number |-> d, previous |-> previous,
   plan |-> <<>>, res |-> <<>>, summary |-> <<>>, quiz |-> <<>>,
   reflection |-> <<>>, rewrote |-> FALSE, tasks |-> <<>>,
   committed |-> <<>>, planLen |-> 0, resLen |-> 0, quizLen |-> 0, raised |-> "none",
   loaded |-> <<>>, pending |-> <<>>]

\* The call has returned or raised: its session is closed, its locals are gone.
Closed(run, pc) ==
  [run EXCEPT !.pc = pc, !.previous = {}, !.plan = <<>>, !.res = <<>>,
              !.summary = <<>>, !.quiz = <<>>, !.reflection = <<>>,
              !.rewrote = FALSE, !.tasks = <<>>, !.loaded = <<>>,
              !.pending = <<>>]

\* The run after the commit of stage s.
Advance(run, s) == [run EXCEPT !.pc = NextStage(s), !.committed = Append(@, s)]

Init ==
  /\ goals = <<>>
  /\ planItems = <<>>
  /\ resources = <<>>
  /\ quizItems = <<>>
  /\ episodes = <<>>
  /\ vectorIndex = {}
  /\ runs = <<>>
  /\ submits = <<>>
  /\ calls = <<>>

\* create_goal
CreateGoal ==
  /\ Len(goals) < MaxGoals
  /\ goals' = Append(goals, [status |-> "new", updated_at |-> 0])
  /\ UNCHANGED <<planItems, resources, quizItems, episodes, vectorIndex, runs, submits, calls>>

\* A lock per (goal, day): a call waits for the calls on the same day.
MayStartExclusive(in, g, d) ==
  /\ Busy < Cardinality(in.procs)
  /\ \A r \in Active : runs[r].goal_id # g \/ runs[r].day_number # d

\* run_day takes no lock: a call starts as soon as a server process is free,
\* whatever the other calls in progress work on.
MayStart(in, g, d) == Busy < Cardinality(in.procs)

\* run_day, lines 72-83: load the goal (NotFound when missing) and the plan
\* items already recorded for (g, d).
\* A query for the plan items of the goal, whatever their day.
PreviousItemsAnyDay(g, d) == {i \in Ids(planItems) : planItems[i].goal_id = g}

\* run_day, lines 79-83: the plan items already stored for (goal, day).
PreviousItems(g, d) ==
  {i \in Ids(planItems) : planItems[i].goal_id = g /\ planItems[i].day_number = d}

RunDayStart(in, g, d) ==
  /\ Len(runs) < MaxRuns
  /\ MayStart(in, g, d)
  /\ runs' = Append(runs,
        IF GoalExists(g)
        THEN NewRun(g, d, "plan", PreviousItems(g, d))
        ELSE NewRun(g, d, "notfound", {}))
  /\ UNCHANGED <<goals, planItems, resources, quizItems, episodes, vectorIndex, submits, calls>>

\* run_day, lines 84-103: planner, plan items and goal status in one commit.
\* A plan stage that marks the goal active only when the plan has items.
PlanKeepsStatusWhenEmpty(in, r) ==
  /\ runs[r].pc = "plan"
  /\ \E k \in in.planLens, n \in in.notes :
       LET g == runs[r].goal_id
           rows == NewPlanItems(PlannerRun(k, n), g, runs[r].day_number, r)
       IN  /\ planItems' = Insert(planItems, rows)
           /\ goals' = IF rows = <<>> THEN goals
                       ELSE [goals EXCEPT ![g].status = "active", ![g].updated_at = @ + 1]
           /\ runs' = [runs EXCEPT ![r] =
                 [Advance(@, "plan") EXCEPT !.previous = {},
                    !.plan = NewIds(planItems, Len(rows)), !.planLen = k]]
  /\ UNCHANGED <<resources, quizItems, episodes, vectorIndex, submits, calls>>

Plan(in, r) ==
  /\ runs[r].pc = "plan"
  /\ \E k \in in.planLens, n \in in.notes :
       LET g == runs[r].goal_id
           rows == NewPlanItems(PlannerRun(k, n), g, runs[r].day_number, r)
       IN  /\ planItems' = Insert(planItems, rows)
           /\ goals' = [goals EXCEPT ![g].status = "active", ![g].updated_at = @ + 1]
           /\ runs' = [runs EXCEPT ![r] =
                 [Advance(@, "plan") EXCEPT !.previous = {},
                    !.plan = NewIds(planItems, Len(rows)), !.planLen = k]]
  /\ UNCHANGED <<resources, quizItems, episodes, vectorIndex, submits, calls>>

\* run_day, lines 105-110: researcher (with the vector upsert), resources.
Research(in, r) ==
  /\ runs[r].pc = "research"
  /\ \E web \in in.webHits, fault \in in.faults :
       LET out == ResearcherRun(Some(runs[r].goal_id), runs[r].plan, web, fault, r, vectorIndex)
           rows == out.resources
       IN  IF out.raised = "none"
           THEN /\ vectorIndex' = Upsert(vectorIndex, rows)
                /\ resources' = Insert(resources, rows)
                /\ runs' = [runs EXCEPT ![r] =
                      [Advance(@, "research") EXCEPT
                         !.res = NewIds(resources, Len(rows)), !.resLen = Len(rows)]]
           ELSE /\ runs' = [runs EXCEPT ![r] = Closed([@ EXCEPT !.raised = out.raised], "failed")]
                /\ UNCHANGED <<vectorIndex, resources>>
  /\ UNCHANGED <<goals, planItems, quizItems, episodes, submits, calls>>

\* run_day, lines 112-116: curator, relevance scores.
(***************************************************************************)
(* The research stage in the two steps a failure can come between: the     *)
(* call of the researcher, which upserts into the vector index             *)
(* (researcher.py:50), and the commit of the Resource rows                 *)
(* (orchestrator.py:106-107).                                              *)
(***************************************************************************)
\* self.researcher.run(goal, plan_items)
ResearchUpsert(in, r) ==
  /\ runs[r].pc = "research"
  /\ \E web \in in.webHits, fault \in in.faults :
       LET out == ResearcherRun(Some(runs[r].goal_id), runs[r].plan, web, fault, r, vectorIndex)
       IN  IF out.raised = "none"
           THEN /\ vectorIndex' = Upsert(vectorIndex, out.resources)
                /\ runs' = [runs EXCEPT ![r] =
                      [@ EXCEPT !.pc = "persist", !.pending = out.resources]]
           ELSE /\ runs' = [runs EXCEPT ![r] = Closed([@ EXCEPT !.raised = out.raised], "failed")]
                /\ UNCHANGED vectorIndex
  /\ UNCHANGED <<goals, planItems, resources, quizItems, episodes, submits, calls>>

\* session.add_all(resources); session.commit()
ResearchCommit(r) ==
  /\ runs[r].pc = "persist"
  /\ LET rows == runs[r].pending
     IN  /\ resources' = Insert(resources, rows)
         /\ runs' = [runs EXCEPT ![r] =
               [Advance(@, "research") EXCEPT
                  !.res = NewIds(resources, Len(rows)), !.resLen = Len(rows),
                  !.pending = <<>>]]
  /\ UNCHANGED <<goals, planItems, quizItems, episodes, vectorIndex, submits, calls>>

Curate(in, r) ==
  /\ runs[r].pc = "curate"
  /\ \E raw \in in.summaries :
       /\ resources' = ScoreResources(resources, runs[r].res)
       /\ runs' = [runs EXCEPT ![r] = [Advance(@, "curate") EXCEPT !.summary = Strip(raw)]]
  /\ UNCHANGED <<goals, planItems, quizItems, episodes, vectorIndex, submits, calls>>

\* run_day, lines 118-134: tutor, quiz items.
Quiz(in, r) ==
  /\ runs[r].pc = "quiz"
  /\ \E n \in in.parsed :
       LET rows == NewQuizItems(TutorRun(ParsedRecords(n), runs[r].summary),
                                runs[r].goal_id, runs[r].day_number, r)
       IN  /\ quizItems' = Insert(quizItems, rows)
           /\ runs' = [runs EXCEPT ![r] =
                 [Advance(@, "quiz") EXCEPT
                    !.quiz = NewIds(quizItems, Len(rows)), !.quizLen = Len(rows)]]
  /\ UNCHANGED <<goals, planItems, resources, episodes, vectorIndex, submits, calls>>

\* run_day, lines 136-138: reflection and the rewrite of future plan items.
Reflect(in, r) ==
  /\ runs[r].pc = "reflect"
  /\ \E raw \in in.reflections :
       LET g == runs[r].goal_id
           d == runs[r].day_number
           reflection == Strip(raw)
       IN  /\ planItems' = RewriteFuturePlanItems(planItems, g, d, reflection)
           /\ runs' = [runs EXCEPT ![r] =
                 [Advance(@, "reflect") EXCEPT
                    !.reflection = reflection,
                    !.rewrote = Rewrites(planItems, g, d, reflection),
                    !.tasks = [i \in 1..Len(runs[r].plan) |-> planItems[runs[r].plan[i]].task]]]
  /\ UNCHANGED <<goals, resources, quizItems, episodes, vectorIndex, submits, calls>>

\* run_day, lines 140-152: the Episode of the run.
(***************************************************************************)
(* The reflection stage in the two steps other processes can come between: *)
(* the select of the future items (lines 201-205) and the commit of the    *)
(* values assigned to the loaded objects (line 216).                       *)
(***************************************************************************)
\* session.commit() of loaded plan items: an UPDATE of the columns whose
\* value differs from the loaded one.
FlushPlanItem(row, loaded, new) ==
  [row EXCEPT
     !.task = IF new.task # loaded.task THEN new.task ELSE @,
     !.notes = IF new.notes # loaded.notes THEN new.notes ELSE @]

\* _generate_reflection and _rewrite_future_plan_items up to line 207.
ReflectRead(in, r) ==
  /\ runs[r].pc = "reflect"
  /\ \E raw \in in.reflections :
       LET g == runs[r].goal_id
           d == runs[r].day_number
           reflection == Strip(raw)
           tasks == [i \in 1..Len(runs[r].plan) |-> planItems[runs[r].plan[i]].task]
       IN  runs' = [runs EXCEPT ![r] =
             IF Rewrites(planItems, g, d, reflection)
             THEN [@ EXCEPT !.pc = "rewrite", !.reflection = reflection, !.tasks = tasks,
                            !.loaded = [i \in FutureItems(planItems, g, d) |-> planItems[i]]]
             ELSE [Advance(@, "reflect") EXCEPT !.reflection = reflection, !.tasks = tasks]]
  /\ UNCHANGED <<goals, planItems, resources, quizItems, episodes, vectorIndex, submits, calls>>

\* _rewrite_future_plan_items, lines 209-216.
ReflectCommit(r) ==
  /\ runs[r].pc = "rewrite"
  /\ LET run == runs[r]
         Rewritten(item) ==
           [item EXCEPT
              !.task = FocusTask(@, FirstSentence(run.reflection)),
              !.notes = NotedNotes(@, ReflectionNote(run.day_number, run.reflection))]
     IN  /\ planItems' = [i \in Ids(planItems) |->
               IF i \in DOMAIN run.loaded
               THEN FlushPlanItem(planItems[i], run.loaded[i], Rewritten(run.loaded[i]))
               ELSE planItems[i]]
         /\ runs' = [runs EXCEPT ![r] =
               [Advance(@, "reflect") EXCEPT !.rewrote = TRUE, !.loaded = <<>>]]
  /\ UNCHANGED <<goals, resources, quizItems, episodes, vectorIndex, submits, calls>>

\* An Episode that aggregates every entity stored for the call's (goal, day).
EpisodeOfDay(r) ==
  /\ runs[r].pc = "episode"
  /\ LET run == runs[r]
         OfDay(table) == SelectSeq(table, LAMBDA row :
                           row.goal_id = run.goal_id /\ row.day_number = run.day_number)
         plan == OfDay(planItems)
         quiz == OfDay(quizItems)
     IN  /\ episodes' = AddEpisode(episodes,
               [goal_id |-> run.goal_id, day_number |-> run.day_number,
                planner_summary |-> PlannerSummary([i \in 1..Len(plan) |-> plan[i].sequence],
                                                   [i \in 1..Len(plan) |-> plan[i].task]),
                researcher_summary |->
                  Len(SelectSeq(resources, LAMBDA row :
                        /\ row.goal_id = run.goal_id
                        /\ planItems[row.plan_item_id].day_number = run.day_number)),
                curator_summary |-> run.summary,
                tutor_summary |-> TutorSummary([i \in 1..Len(quiz) |-> quiz[i].question]),
                reflection |-> run.reflection, run |-> r])
         /\ runs' = [runs EXCEPT ![r] = Closed(Advance(@, "episode"), "done")]
  /\ UNCHANGED <<goals, planItems, resources, quizItems, vectorIndex, submits, calls>>

Episode(r) ==
  /\ runs[r].pc = "episode"
  /\ LET run == runs[r]
         \* The rewrite's commit expired the plan items: they are read again.
         tasks == IF run.rewrote
                  THEN [i \in 1..Len(run.plan) |-> planItems[run.plan[i]].task]
                  ELSE run.tasks
         seqs == [i \in 1..Len(run.plan) |-> planItems[run.plan[i]].sequence]
     IN  /\ episodes' = AddEpisode(episodes,
               [goal_id |-> run.goal_id, day_number |-> run.day_number,
                planner_summary |-> PlannerSummary(seqs, tasks),
                researcher_summary |-> Len(run.res),
                curator_summary |-> run.summary,
                tutor_summary |-> TutorSummary([i \in 1..Len(run.quiz) |-> quizItems[run.quiz[i]].question]),
                reflection |-> run.reflection, run |-> r])
         /\ runs' = [runs EXCEPT ![r] = Closed(Advance(@, "episode"), "done")]
  /\ UNCHANGED <<goals, planItems, resources, quizItems, vectorIndex, submits, calls>>

\* The process dies, or a commit raises, at any point of the call: what the
\* call committed stays, the session is closed without a commit.
Crash(r) ==
  /\ runs[r].pc \notin Finished
  /\ runs' = [runs EXCEPT ![r] = Closed([@ EXCEPT !.raised = "Crash"], "failed")]
  /\ UNCHANGED <<goals, planItems, resources, quizItems, episodes, vectorIndex, submits, calls>>

\* One transaction for the whole call: a failure undoes the earlier stages.
AfterFailureUndo(table, r) == SelectSeq(table, LAMBDA row : row.run # r)

\* What the store holds after a failed agent call: the session closes and
\* rolls back, nothing of the failing stage was flushed.
AfterFailure(table, r) == table

\* An agent call of run r raises: the exception leaves run_day.
Fail(r) ==
  /\ runs[r].pc \in AgentStages
  /\ runs' = [runs EXCEPT ![r] = Closed([@ EXCEPT !.raised = "AgentError"], "failed")]
  /\ planItems' = AfterFailure(planItems, r)
  /\ UNCHANGED <<goals, resources, quizItems, episodes, vectorIndex, submits, calls>>

(***************************************************************************)
(* submit_quiz_answer: a read of the quiz item, then the commit of the     *)
(* evaluation.                                                             *)
(***************************************************************************)
\* session.get(QuizItem, q) is not None
QuizExists(q) == q \in Ids(quizItems)

\* A submission that leaves an answered item as it is.
AnsweredFirstWins(quiz, answer) ==
  IF quiz.status = "answered" THEN quiz
  ELSE LET evaluation == EvaluateAnswer(quiz.answer, answer)
       IN  [quiz EXCEPT !.learner_answer = Some(answer),
                        !.is_correct = Some(evaluation.is_correct),
                        !.feedback = Some(evaluation.feedback),
                        !.status = "answered"]

\* A submission that records the evaluation and leaves the status alone.
AnsweredKeepsStatus(quiz, answer) ==
  LET evaluation == EvaluateAnswer(quiz.answer, answer)
  IN  [quiz EXCEPT !.learner_answer = Some(answer),
                   !.is_correct = Some(evaluation.is_correct),
                   !.feedback = Some(evaluation.feedback)]

\* A submission that also takes the learner's text as the reference answer.
AnsweredLearnsAnswer(quiz, answer) ==
  LET evaluation == EvaluateAnswer(quiz.answer, answer)
  IN  [quiz EXCEPT !.answer = answer,
                   !.learner_answer = Some(answer),
                   !.is_correct = Some(evaluation.is_correct),
                   !.feedback = Some(evaluation.feedback),
                   !.status = "answered"]

\* submit_quiz_answer, lines 164-168: the loaded object after the assignments.
Answered(quiz, answer) ==
  LET evaluation == EvaluateAnswer(quiz.answer, answer)
  IN  [quiz EXCEPT !.learner_answer = Some(answer),
                   !.is_correct = Some(evaluation.is_correct),
                   !.feedback = Some(evaluation.feedback),
                   !.status = "answered"]

\* session.commit(): the UPDATE sets the columns whose value differs from
\* the value the session loaded; the other columns of the row stay.
Flush(row, loaded, new) ==
  [row EXCEPT
     !.answer = IF new.answer # loaded.answer THEN new.answer ELSE @,
     !.learner_answer = IF new.learner_answer # loaded.learner_answer THEN new.learner_answer ELSE @,
     !.is_correct = IF new.is_correct # loaded.is_correct THEN new.is_correct ELSE @,
     !.feedback = IF new.feedback # loaded.feedback THEN new.feedback ELSE @,
     !.status = IF new.status # loaded.status THEN new.status ELSE @]

\* submit_quiz_answer, lines 159-163: read the quiz item (NotFound when missing).
SubmitStart(in, q, answer) ==
  /\ Len(submits) < MaxSubmits
  /\ Busy < Cardinality(in.procs)
  /\ submits' = Append(submits,
        IF QuizExists(q)
        THEN [pc |-> "commit", quiz_id |-> q, answer |-> answer, loaded |-> Some(quizItems[q])]
        ELSE [pc |-> "notfound", quiz_id |-> q, answer |-> answer, loaded |-> None])
  /\ UNCHANGED <<goals, planItems, resources, quizItems, episodes, vectorIndex, runs, calls>>

\* submit_quiz_answer, lines 164-172: evaluate, assign, commit.
SubmitCommit(c) ==
  /\ submits[c].pc = "commit"
  /\ LET q == submits[c].quiz_id
         loaded == submits[c].loaded[1]
     IN  quizItems' = [quizItems EXCEPT
                         ![q] = Flush(@, loaded, Answered(loaded, submits[c].answer))]
  /\ submits' = [submits EXCEPT ![c] = [@ EXCEPT !.pc = "done", !.loaded = None]]
  /\ UNCHANGED <<goals, planItems, resources, episodes, vectorIndex, runs, calls>>

(***************************************************************************)
(* Calls that return without a commit: calls records, per call, the        *)
(* operation, its argument, the number of rows it was given, what it       *)
(* raised, the search-provider calls and vector upserts it made, and the   *)
(* resources it returned.                                                  *)
(***************************************************************************)
Call(op, arg, given, raised, searches, upserts, rows) ==
  [op |-> op, arg |-> arg, given |-> given, raised |-> raised, searches |-> searches,
   upserts |-> upserts, resources |-> rows]

\* get_goal
\* A query without ORDER BY, rows in insertion order.
RECURSIVE PlanInsertionOrder(_)
PlanInsertionOrder(ids) ==
  IF ids = {} THEN {<<>>}
  ELSE LET first == CHOOSE i \in ids : \A j \in ids : i <= j
       IN  {<<first>> \o rest : rest \in PlanInsertionOrder(ids \ {first})}

\* ORDER BY day_number, sequence: every order of the rows that ascends in
\* that key; the order of rows with equal keys is the database's choice.
RECURSIVE PlanOrders(_)
PlanOrders(ids) ==
  IF ids = {} THEN {<<>>}
  ELSE LET least == {i \in ids : \A j \in ids :
                       \/ planItems[i].day_number < planItems[j].day_number
                       \/ /\ planItems[i].day_number = planItems[j].day_number
                          /\ planItems[i].sequence <= planItems[j].sequence}
       IN  UNION {{<<first>> \o rest : rest \in PlanOrders(ids \ {first})} : first \in least}

\* get_plan: day is None or Some(d); the call returns a list and raises
\* nothing, whether the goal exists or not.
GetPlan(in, g, day) ==
  /\ Len(calls) < MaxCalls
  /\ Busy < Cardinality(in.procs)
  /\ LET ids == {i \in Ids(planItems) :
                   /\ planItems[i].goal_id = g
                   /\ day # None => planItems[i].day_number = day[1]}
     IN  \E rows \in PlanOrders(ids) :
           calls' = Append(calls, Call("get_plan", <<g>> \o day, 0, "none", 0, 0, rows))
  /\ UNCHANGED <<goals, planItems, resources, quizItems, episodes, vectorIndex, runs, submits>>

GetGoal(in, g) ==
  /\ Len(calls) < MaxCalls
  /\ Busy < Cardinality(in.procs)
  /\ calls' = Append(calls,
        Call("get_goal", Some(g), 0, IF GoalExists(g) THEN "none" ELSE "NotFound", 0, 0, <<>>))
  /\ UNCHANGED <<goals, planItems, resources, quizItems, episodes, vectorIndex, runs, submits>>

NextOf(in) ==
  \/ CreateGoal
  \/ \E g \in in.goalIds, d \in in.days : RunDayStart(in, g, d)
  \/ \E r \in Ids(runs) : Plan(in, r)
  \/ \E r \in Ids(runs) : Research(in, r)
  \/ \E r \in Ids(runs) : Curate(in, r)
  \/ \E r \in Ids(runs) : Quiz(in, r)
  \/ \E r \in Ids(runs) : Reflect(in, r)
  \/ \E r \in Ids(runs) : Episode(r)
  \/ \E r \in Ids(runs) : Fail(r)

\* One step of the run_day call r.
RunStep(in, r) ==
  \/ Plan(in, r) \/ Research(in, r) \/ Curate(in, r) \/ Quiz(in, r)
  \/ Reflect(in, r) \/ Episode(r)

Next == NextOf(PipelineInputs)

Spec == Init /\ [][Next]_vars

NextConc == NextOf(ConcurrentInputs)

SpecConc == Init /\ [][NextConc]_vars

(***************************************************************************)
(* The store is persistent: a server process starts on the rows an earlier *)
(* process or an operator left.  InitStore is such a store: goal 1 in any  *)
(* status of GoalStatus, and, once it was planned, its plan items of day 1 *)
(* and day 2 (run 0 is the earlier process).                               *)
(***************************************************************************)
StoredItem(d, seq, notes) ==
  [goal_id |-> 1, day_number |-> d, sequence |-> seq, task |-> <<"t", Digit(seq)>>,
   notes |-> notes, status |-> "pending", reflection |-> None, run |-> 0]

StoredPlan ==
  <<StoredItem(1, 1, <<>>), StoredItem(2, 1, <<>>), StoredItem(2, 2, <<" ", "n", " ">>)>>

InitStore ==
  /\ \E s \in GoalStatus :
       /\ goals = <<[status |-> s, updated_at |-> 0]>>
       /\ planItems = IF s \in {"active", "complete"} THEN StoredPlan ELSE <<>>
  /\ resources = <<>>
  /\ quizItems = <<>>
  /\ episodes = <<>>
  /\ vectorIndex = {}
  /\ runs = <<>>
  /\ submits = <<>>
  /\ calls = <<>>

NextStore == NextOf(StoreInputs)

SpecStore == InitStore /\ [][NextStore]_vars

\* ResearcherAgent.run called on a goal object (persisted or not) and the
\* plan items of the store.
ResearcherCall(in, goalId) ==
  /\ Len(calls) < MaxCalls
  /\ Busy < Cardinality(in.procs)
  /\ \E web \in in.webHits, fault \in in.faults :
       LET out == ResearcherRun(goalId, NewIds(<<>>, Len(planItems)), web, fault, 0, vectorIndex)
       IN  /\ calls' = Append(calls,
                 Call("researcher.run", goalId, Len(planItems), out.raised, out.searches, out.upserts,
                      out.resources))
           /\ vectorIndex' = IF out.raised = "none" THEN Upsert(vectorIndex, out.resources)
                             ELSE vectorIndex
  /\ UNCHANGED <<goals, planItems, resources, quizItems, episodes, runs, submits>>

\* upsert_resources called on the resources of the store: calls records the
\* objects as the call leaves them.
UpsertResources(in) ==
  /\ Len(calls) < MaxCalls
  /\ Busy < Cardinality(in.procs)
  /\ resources # <<>>
  /\ LET rows == [i \in Ids(resources) |->
                   [resources[i] EXCEPT !.vector_id = Some(VectorId(@, Some(i), vectorIndex, i))]]
     IN  /\ calls' = Append(calls, Call("upsert_resources", None, Len(resources), "none", 0, 1, rows))
         /\ vectorIndex' = Upsert(vectorIndex, rows)
  /\ UNCHANGED <<goals, planItems, resources, quizItems, episodes, runs, submits>>

(***************************************************************************)
(* The research and curate stages on one server process, with the direct   *)
(* calls of the researcher and of the vector index.                        *)
(***************************************************************************)
NextResearch ==
  \/ NextOf(ResearchInputs)
  \/ \E goalId \in {None} \cup {Some(g) : g \in Ids(goals) \cap ResearchInputs.goalIds} :
       ResearcherCall(ResearchInputs, goalId)
  \/ UpsertResources(ResearchInputs)

SpecResearch == Init /\ [][NextResearch]_vars

\* A store in which goal 1 has a plan for day 2 (its call failed in the
\* research stage); goals are created, run_day is called for goal 2 and
\* get_plan for either goal, with and without a day.
InitPlan ==
  /\ goals = <<[status |-> "active", updated_at |-> 1]>>
  /\ planItems = <<StoredItem(2, 1, <<>>), StoredItem(2, 2, <<>>)>>
  /\ resources = <<>>
  /\ quizItems = <<>>
  /\ episodes = <<>>
  /\ vectorIndex = {}
  /\ runs = <<>>
  /\ submits = <<>>
  /\ calls = <<>>

NextPlan ==
  \/ NextOf(PlanInputs)
  \/ \E g \in {1, 2}, day \in {None, Some(2)} : GetPlan(PlanInputs, g, day)

SpecPlan == InitPlan /\ [][NextPlan]_vars

(***************************************************************************)
(* Two server processes on a store in which goal 1 has a plan item for day *)
(* 3; run_day is called for days 1 and 2, the reflection stage taken in    *)
(* its two steps.                                                          *)
(***************************************************************************)
RewriteInputs ==
  [planLens |-> {0}, notes |-> {<<>>}, webHits |-> {0},
   summaries |-> {<<"S", "u", "m", "\n">>}, parsed |-> {1},
   reflections |-> {ShortReflection}, days |-> {1, 2},
   procs |-> {"p1", "p2"}, faults |-> {"none"}, goalIds |-> {1}]

InitRewrite ==
  /\ goals = <<[status |-> "active", updated_at |-> 1]>>
  /\ planItems = <<StoredItem(3, 1, <<>>)>>
  /\ resources = <<>>
  /\ quizItems = <<>>
  /\ episodes = <<>>
  /\ vectorIndex = {}
  /\ runs = <<>>
  /\ submits = <<>>
  /\ calls = <<>>

NextRewrite ==
  \/ \E g \in RewriteInputs.goalIds, d \in RewriteInputs.days : RunDayStart(RewriteInputs, g, d)
  \/ \E r \in Ids(runs) : Plan(RewriteInputs, r)
  \/ \E r \in Ids(runs) : Research(RewriteInputs, r)
  \/ \E r \in Ids(runs) : Curate(RewriteInputs, r)
  \/ \E r \in Ids(runs) : Quiz(RewriteInputs, r)
  \/ \E r \in Ids(runs) : ReflectRead(RewriteInputs, r)
  \/ \E r \in Ids(runs) : ReflectCommit(r)
  \/ \E r \in Ids(runs) : Episode(r)

SpecRewrite == InitRewrite /\ [][NextRewrite]_vars

\* One server process; calls for days 1 and 2 of goal 1 that can die at any
\* point.
CrashInputs ==
  [planLens |-> {1}, notes |-> {<<>>}, webHits |-> {0},
   summaries |-> {<<"S", "u", "m", "\n">>}, parsed |-> {1},
   reflections |-> {BlankReflection, ShortReflection}, days |-> {1, 2},
   procs |-> {"p1"}, faults |-> {"none"}, goalIds |-> {1}]

NextCrash ==
  \/ NextOf(CrashInputs)
  \/ \E r \in Ids(runs) : Crash(r)

SpecCrash == Init /\ [][NextCrash]_vars

(***************************************************************************)
(* One server process; calls for two goals with plans of one or two items, *)
(* the research stage taken in its two steps, a search provider that can   *)
(* fail and calls that can die at any point.                               *)
(***************************************************************************)
IndexInputs ==
  [planLens |-> {1, 2}, notes |-> {<<>>}, webHits |-> {0},
   summaries |-> {<<"S", "u", "m", "\n">>}, parsed |-> {1},
   reflections |-> {BlankReflection}, days |-> {1},
   procs |-> {"p1"}, faults |-> {"none", "duckduckgo"}, goalIds |-> {1, 2}]

NextIndex ==
  \/ CreateGoal
  \/ \E g \in IndexInputs.goalIds, d \in IndexInputs.days : RunDayStart(IndexInputs, g, d)
  \/ \E r \in Ids(runs) : Plan(IndexInputs, r)
  \/ \E r \in Ids(runs) : ResearchUpsert(IndexInputs, r)
  \/ \E r \in Ids(runs) : ResearchCommit(r)
  \/ \E r \in Ids(runs) : Curate(IndexInputs, r)
  \/ \E r \in Ids(runs) : Quiz(IndexInputs, r)
  \/ \E r \in Ids(runs) : Reflect(IndexInputs, r)
  \/ \E r \in Ids(runs) : Episode(r)
  \/ \E r \in Ids(runs) : Crash(r)

SpecIndex == Init /\ [][NextIndex]_vars

NextTutor == NextOf(TutorInputs)

SpecTutor == Init /\ [][NextTutor]_vars

(***************************************************************************)
(* The operations of the API on one server process: calls are served one   *)
(* after the other.                                                        *)
(***************************************************************************)
SubmitOf(in) ==
  \/ \E q \in 1..(Len(quizItems) + 1), answer \in in.answers : SubmitStart(in, q, answer)
  \/ \E c \in Ids(submits) : SubmitCommit(c)

NextApi ==
  \/ NextOf(ApiInputs)
  \/ SubmitOf(ApiInputs)

SpecApi == Init /\ [][NextApi]_vars

(***************************************************************************)
(* Two server processes answering the quiz of a day an earlier process ran *)
(* (run 0): its first quiz item is still delivered, its second was         *)
(* answered with the reference answer.                                     *)
(***************************************************************************)
StoredQuiz(i, learner) ==
  LET row == [goal_id |-> 1, day_number |-> 1, question |-> <<"q", Digit(i)>>,
              answer |-> <<"a", Digit(i)>>, learner_answer |-> None, is_correct |-> None,
              feedback |-> None, status |-> "delivered", run |-> 0]
  IN  IF learner = None THEN row
      ELSE Flush(row, row, Answered(row, learner[1]))

InitAnswers ==
  /\ goals = <<[status |-> "active", updated_at |-> 1]>>
  /\ planItems = <<StoredItem(1, 1, <<>>)>>
  /\ resources = <<>>
  /\ quizItems = <<StoredQuiz(1, Some(RightAnswer)), StoredQuiz(2, None)>>
  /\ episodes = <<>>
  /\ vectorIndex = {}
  /\ runs = <<>>
  /\ submits = <<>>
  /\ calls = <<>>

NextAnswers == SubmitOf(AnswerInputs)

SpecAnswers == InitAnswers /\ [][NextAnswers]_vars

(***************************************************************************)
(* One server process answering one stored quiz item; the reference answer *)
(* and the learner's answers are drawn from texts of zero to five tokens,  *)
(* one of them with five tokens of 30 characters.                          *)
(***************************************************************************)
SpaceTimeContinuum == <<"s", "p", "a", "c", "e", " ", "t", "i", "m", "e", " ", "c", "o", "n", "t", "i", "n", "u", "u", "m">>

SpaceTime == <<"s", "p", "a", "c", "e", " ", "t", "i", "m", "e">>

LoudSpace == <<" ", "S", "P", "A", "C", "E", " ", " ">>

Banana == <<"b", "a", "n", "a", "n", "a">>

LongToken(c) == Rep(c, 30)

LongReference == Join(<<LongToken("e"), LongToken("d"), LongToken("c"), LongToken("b"), LongToken("a")>>, <<" ">>)

ReferenceAnswers == {SpaceTimeContinuum, LongReference, <<>>, <<" ">>}

EvaluateInputs ==
  [procs |-> {"p1"},
   answers |-> {SpaceTime, LoudSpace, Banana, <<>>, LongToken("a"),
                LongToken("b") \o <<"\n">> \o LongToken("d")}]

InitEvaluate ==
  /\ goals = <<[status |-> "active", updated_at |-> 1]>>
  /\ planItems = <<StoredItem(1, 1, <<>>)>>
  /\ resources = <<>>
  /\ \E reference \in ReferenceAnswers :
       quizItems = <<[StoredQuiz(1, None) EXCEPT !.answer = reference]>>
  /\ episodes = <<>>
  /\ vectorIndex = {}
  /\ runs = <<>>
  /\ submits = <<>>
  /\ calls = <<>>

NextEvaluate == SubmitOf(EvaluateInputs)

SpecEvaluate == InitEvaluate /\ [][NextEvaluate]_vars

\* One server process on that store: goals are created and looked up, quiz
\* items are answered.
NextLookup ==
  \/ CreateGoal
  \/ SubmitOf(LookupInputs)
  \/ \E g \in 1..(MaxGoals + 1) : GetGoal(LookupInputs, g)

SpecLookup == InitAnswers /\ [][NextLookup]_vars

(***************************************************************************)
(* History of a call, read off the rows it inserted.                       *)
(***************************************************************************)
RowsOf(table, r) == {i \in Ids(table) : table[i].run = r}

IsPrefix(s, t) == Len(s) <= Len(t) /\ SubSeq(t, 1, Len(s)) = s

\* No transition removes a row or changes which call, goal or day it belongs to.
RowsKept(old, new) ==
  /\ Len(new) >= Len(old)
  /\ \A i \in Ids(old) : new[i].run = old[i].run /\ new[i].goal_id = old[i].goal_id

(***************************************************************************)
(* C1: within one run_day call the stages commit in the order plan,        *)
(* research, curate, quiz, reflect, episode: the stages a call has         *)
(* committed are a prefix of that order, the call stands at the stage      *)
(* after that prefix, and rows of a stage exist only once the stages       *)
(* before it are committed.                                                *)
(***************************************************************************)
StagesCommitInOrder ==
  \A r \in Ids(runs) :
    LET done == runs[r].committed
    IN  /\ IsPrefix(done, StageOrder)
        /\ runs[r].pc \notin Finished => runs[r].pc = StageOrder[Len(done) + 1]
        /\ RowsOf(planItems, r) # {} => Len(done) >= 1
        /\ RowsOf(resources, r) # {} => Len(done) >= 2
        /\ (\E i \in RowsOf(resources, r) : resources[i].relevance_score # None)
             => Len(done) >= 3
        /\ RowsOf(quizItems, r) # {} =>
             /\ Len(done) >= 4
             /\ Cardinality(RowsOf(planItems, r)) = runs[r].planLen
             /\ Cardinality(RowsOf(resources, r)) = runs[r].resLen
             /\ \A i \in RowsOf(resources, r) : resources[i].relevance_score # None
        /\ RowsOf(episodes, r) # {} =>
             /\ Len(done) = 6
             /\ Cardinality(RowsOf(quizItems, r)) = runs[r].quizLen
             /\ runs[r].quizLen >= 1

\* A call that went through all six stages, with rows of each.
StagesCommitInOrderWitness ==
  \E r \in Ids(runs) :
    /\ runs[r].pc = "done"
    /\ runs[r].committed = StageOrder
    /\ RowsOf(planItems, r) # {} /\ RowsOf(resources, r) # {}
    /\ RowsOf(quizItems, r) # {} /\ RowsOf(episodes, r) # {}

(***************************************************************************)
(* C2: when an agent call of a stage fails, the call ends failed, the      *)
(* step changes nothing in the store or the vector index, and a failed     *)
(* call never has an Episode nor rows of the stage it failed in.           *)
(***************************************************************************)
FailedRunCommitsNothingMore ==
  \A r \in Ids(runs) :
    runs[r].pc = "failed" =>
      LET done == runs[r].committed
      IN  /\ Len(done) < 5
          /\ RowsOf(episodes, r) = {}
          /\ Cardinality(RowsOf(planItems, r)) = (IF Len(done) >= 1 THEN runs[r].planLen ELSE 0)
          /\ Cardinality(RowsOf(resources, r)) = (IF Len(done) >= 2 THEN runs[r].resLen ELSE 0)
          /\ Cardinality(RowsOf(quizItems, r)) = (IF Len(done) >= 4 THEN runs[r].quizLen ELSE 0)
          /\ \A i \in RowsOf(resources, r) :
               (resources[i].relevance_score # None) <=> Len(done) >= 3

FailureStepKeepsStore ==
  \A r \in Ids(runs) :
    (runs[r].pc \in AgentStages /\ runs'[r].pc = "failed") =>
      /\ store' = store
      /\ vectorIndex' = vectorIndex
      /\ runs'[r].committed = runs[r].committed

FailureLeavesEarlierStages ==
  [](FailedRunCommitsNothingMore) /\ [][FailureStepKeepsStore]_vars

\* A call that failed in the tutor stage, its plan items and resources kept.
FailureLeavesEarlierStagesWitness ==
  \E r \in Ids(runs) :
    /\ runs[r].pc = "failed"
    /\ runs[r].committed = <<"plan", "research", "curate">>
    /\ RowsOf(planItems, r) # {} /\ RowsOf(resources, r) # {}

(***************************************************************************)
(* C3: run_day with a goal id that is not in the store ends NotFound in    *)
(* its first step: no stage is entered, and the store and the vector index *)
(* are unchanged.                                                          *)
(***************************************************************************)
NotFoundRunDidNothing ==
  \A r \in Ids(runs) :
    runs[r].pc = "notfound" =>
      /\ runs[r].committed = <<>>
      /\ RowsOf(planItems, r) = {} /\ RowsOf(resources, r) = {}
      /\ RowsOf(quizItems, r) = {} /\ RowsOf(episodes, r) = {}

MissingGoalStepIsNotFound ==
  (Len(runs') = Len(runs) + 1 /\ runs'[Len(runs')].goal_id \notin Ids(goals)) =>
    /\ runs'[Len(runs')].pc = "notfound"
    /\ store' = store
    /\ vectorIndex' = vectorIndex

MissingGoalIsNotFound ==
  [](NotFoundRunDidNothing) /\ [][MissingGoalStepIsNotFound]_vars

\* A NotFound call on a store that holds a goal and rows of an earlier call.
MissingGoalIsNotFoundWitness ==
  \E r \in Ids(runs) :
    /\ runs[r].pc = "notfound"
    /\ runs[r].goal_id \notin Ids(goals)
    /\ goals # <<>> /\ planItems # <<>>

(***************************************************************************)
(* The step of call r that holds the reflection rewrite.                   *)
(***************************************************************************)
RewriteStep(r) == r \in Ids(runs) /\ runs[r].pc = "reflect" /\ runs'[r].pc = "episode"

(***************************************************************************)
(* C4: the reflection rewrite of run_day(G, N) changes only plan items of  *)
(* goal G with day_number > N: it inserts and removes no plan item, and    *)
(* every plan item of G with day_number <= N and every plan item of        *)
(* another goal is the same row after the step.                            *)
(***************************************************************************)
RewriteStepFrame ==
  \A r \in Ids(runs) :
    RewriteStep(r) =>
      /\ Len(planItems') = Len(planItems)
      /\ \A i \in Ids(planItems) :
           (planItems[i].goal_id # runs[r].goal_id
              \/ planItems[i].day_number <= runs[r].day_number)
             => planItems'[i] = planItems[i]

RewriteTouchesFutureOnly == [][RewriteStepFrame]_vars

\* After a rewrite that changed a future item: the call's own items, and
\* items of another goal, are in the store.
RewriteTouchesFutureOnlyWitness ==
  \E r \in Ids(runs) :
    /\ runs[r].pc = "episode" /\ runs[r].rewrote
    /\ \E i \in Ids(planItems) :
         /\ planItems[i].goal_id = runs[r].goal_id
         /\ planItems[i].day_number > runs[r].day_number
         /\ planItems[i].task # <<"t", Digit(planItems[i].sequence)>>
    /\ \E i \in Ids(planItems) :
         /\ planItems[i].goal_id = runs[r].goal_id
         /\ planItems[i].day_number = runs[r].day_number
    /\ \E i \in Ids(planItems) : planItems[i].goal_id # runs[r].goal_id

(***************************************************************************)
(* C5 as stated: when run_day(G, N) produces a non-empty reflection, every *)
(* plan item of G with day_number > N has its task suffixed with           *)
(* " (Focus: <first sentence, at most 60 characters>)" and its notes end   *)
(* with the line "Reflection applied on day N: <reflection, at most 200    *)
(* characters>"; the rewrite changes nothing only when there is no future  *)
(* item or the reflection is empty.                                        *)
(***************************************************************************)
IsSuffix(s, t) == Len(s) <= Len(t) /\ SubSeq(t, Len(t) - Len(s) + 1, Len(t)) = s

\* The note line of the claim, for day d and reflection text.
ClaimedNote(d, reflection) ==
  NotePrefix \o IntStr(d) \o <<":", " ">> \o SubSeq(reflection, 1, IF Len(reflection) < 200 THEN Len(reflection) ELSE 200)

\* The first sentence of the claim: the text before the first ".", trimmed,
\* cut to 60 characters.
ClaimedFocus(reflection) ==
  LET first == Strip(SplitFirst(reflection, "."))
  IN  SubSeq(first, 1, IF Len(first) < 60 THEN Len(first) ELSE 60)

RewriteStepBothChanges ==
  \A r \in Ids(runs) :
    RewriteStep(r) =>
      LET text == runs'[r].reflection
          future == {i \in Ids(planItems) :
                       /\ planItems[i].goal_id = runs[r].goal_id
                       /\ planItems[i].day_number > runs[r].day_number}
      IN  /\ text # <<>> =>
               \A i \in future :
                 /\ planItems'[i].task =
                      planItems[i].task \o FocusOpen \o ClaimedFocus(text) \o <<")">>
                 /\ IsSuffix(ClaimedNote(runs[r].day_number, text), planItems'[i].notes)
          /\ planItems' = planItems <=> (future = {} \/ text = <<>>)

RewriteAppliesBothChanges == [][RewriteStepBothChanges]_vars

(***************************************************************************)
(* C5 as amended: every plan item of G with day_number > N has its task    *)
(* suffixed with the Focus hint when the first sentence is not empty and   *)
(* its task unchanged when it is empty; its notes become the earlier notes *)
(* (trimmed), a line break when those are not empty, and the note line     *)
(* with trailing whitespace trimmed; the rewrite changes nothing exactly   *)
(* when there is no future item or the reflection is empty.                *)
(***************************************************************************)
RewriteStepChanges ==
  \A r \in Ids(runs) :
    RewriteStep(r) =>
      LET text == runs'[r].reflection
          future == {i \in Ids(planItems) :
                       /\ planItems[i].goal_id = runs[r].goal_id
                       /\ planItems[i].day_number > runs[r].day_number}
          line == RStrip(ClaimedNote(runs[r].day_number, text))
      IN  /\ text # <<>> =>
               \A i \in future :
                 LET before == Strip(planItems[i].notes)
                 IN  /\ planItems'[i].task =
                          (IF ClaimedFocus(text) # <<>>
                           THEN planItems[i].task \o FocusOpen \o ClaimedFocus(text) \o <<")">>
                           ELSE planItems[i].task)
                     /\ planItems'[i].notes =
                          (IF before = <<>> THEN line ELSE before \o <<"\n">> \o line)
          /\ planItems' = planItems <=> (future = {} \/ text = <<>>)

RewriteAppliesChanges == [][RewriteStepChanges]_vars

\* After the rewrite with the long reflection: a future item carries the
\* hint cut to 60 characters and a note cut to 200 characters.
RewriteAppliesChangesWitness ==
  \E r \in Ids(runs) :
    /\ runs[r].pc = "episode" /\ runs[r].rewrote
    /\ Len(runs[r].reflection) > 200
    /\ \E i \in Ids(planItems) :
         /\ planItems[i].goal_id = runs[r].goal_id
         /\ planItems[i].day_number > runs[r].day_number
         /\ IsSuffix(FocusOpen \o Rep("x", 60) \o <<")">>, planItems[i].task)
         /\ IsSuffix(<<"y">>, planItems[i].notes)

(***************************************************************************)
(* C6: a goal's status never moves backwards in the order                  *)
(* new < planning < active < complete, whatever status it is in.           *)
(***************************************************************************)
StatusStepForward ==
  \A g \in Ids(goals) : StatusRank(goals'[g].status) >= StatusRank(goals[g].status)

PlanSequencesContiguous ==
  \A r \in Ids(runs) :
    Len(runs[r].committed) >= 1 =>
      LET mine == RowsOf(planItems, r)
      IN  /\ Cardinality(mine) = runs[r].planLen
          /\ {planItems[i].sequence : i \in mine} = 1..runs[r].planLen
          /\ \A i \in mine :
               /\ planItems[i].sequence = Cardinality({j \in mine : j <= i})
               /\ SubSeq(planItems[i].task, 1, 2) = <<"t", Digit(Cardinality({j \in mine : j <= i}))>>

\* A call whose planner returned two tasks, committed.
PlanSequencesContiguousWitness ==
  \E r \in Ids(runs) :
    /\ runs[r].planLen = 2
    /\ "plan" \in {runs[r].committed[i] : i \in 1..Len(runs[r].committed)}
    /\ Cardinality(RowsOf(planItems, r)) = 2

(***************************************************************************)
(* C8 as stated: no two plan items share the same                          *)
(* (goal_id, day_number, sequence) triple.                                 *)
(***************************************************************************)
SameTriple(a, b) ==
  /\ a.goal_id = b.goal_id
  /\ a.day_number = b.day_number
  /\ a.sequence = b.sequence

PlanTripleUnique ==
  \A i, j \in Ids(planItems) : i # j => ~SameTriple(planItems[i], planItems[j])

(***************************************************************************)
(* C8 as amended: no two plan items created by the same run_day call share *)
(* the same (goal_id, day_number, sequence) triple.                        *)
(***************************************************************************)
PlanTripleUniquePerRun ==
  \A i, j \in Ids(planItems) :
    (i # j /\ SameTriple(planItems[i], planItems[j])) => planItems[i].run # planItems[j].run

\* Two calls for the same day left two plan items with the same triple.
PlanTripleUniquePerRunWitness ==
  \E i, j \in Ids(planItems) :
    /\ i # j
    /\ SameTriple(planItems[i], planItems[j])
    /\ Cardinality(RowsOf(planItems, planItems[i].run)) = 2

(***************************************************************************)
(* C9: Episodes are append-only and one per completed call: a call that    *)
(* returned has exactly one Episode, for its goal and day, any other call  *)
(* has none, so the Episodes of a (goal, day) are as many as the calls     *)
(* completed for it; no step changes or removes an Episode, and no step    *)
(* removes a plan item, resource or quiz item.                             *)
(***************************************************************************)
EpisodePerCompletedRun ==
  /\ \A i \in Ids(episodes) : episodes[i].run \in Ids(runs)
  /\ \A r \in Ids(runs) :
       /\ Cardinality(RowsOf(episodes, r)) = (IF runs[r].pc = "done" THEN 1 ELSE 0)
       /\ \A i \in RowsOf(episodes, r) :
            /\ episodes[i].goal_id = runs[r].goal_id
            /\ episodes[i].day_number = runs[r].day_number
       /\ Cardinality({i \in Ids(episodes) :
                         /\ episodes[i].goal_id = runs[r].goal_id
                         /\ episodes[i].day_number = runs[r].day_number})
            = Cardinality({q \in Ids(runs) :
                             /\ runs[q].pc = "done"
                             /\ runs[q].goal_id = runs[r].goal_id
                             /\ runs[q].day_number = runs[r].day_number})

EpisodesKept ==
  /\ Len(episodes') >= Len(episodes)
  /\ \A i \in Ids(episodes) : episodes'[i] = episodes[i]
  /\ RowsKept(planItems, planItems')
  /\ RowsKept(resources, resources')
  /\ RowsKept(quizItems, quizItems')

EpisodesAppendOnly == [](EpisodePerCompletedRun) /\ [][EpisodesKept]_vars

\* Two completed calls for the same (goal, day): two Episodes, and the plan
\* items of the first call beside those of the second.
EpisodesAppendOnlyWitness ==
  \E i, j \in Ids(episodes) :
    /\ i < j
    /\ episodes[i].goal_id = episodes[j].goal_id
    /\ episodes[i].day_number = episodes[j].day_number
    /\ RowsOf(planItems, episodes[i].run) # {}
    /\ RowsOf(planItems, episodes[j].run) # {}

(***************************************************************************)
(* C10: two run_day calls for the same (goal, day) do not exclude each     *)
(* other: while one is in progress another may start on a free process,    *)
(* every call in progress can take its next step, and once both are done   *)
(* the store holds the plan items and quiz items of both and one Episode   *)
(* of each.                                                                *)
(***************************************************************************)
ConcurrentRunsBothComplete ==
  /\ \A r \in Active :
       /\ ENABLED RunStep(ConcurrentInputs, r)
       /\ (Len(runs) < MaxRuns /\ Cardinality(Active) < Cardinality(ConcurrentInputs.procs))
            => ENABLED RunDayStart(ConcurrentInputs, runs[r].goal_id, runs[r].day_number)
  /\ \A r, q \in Ids(runs) :
       (/\ r # q
        /\ runs[r].pc = "done" /\ runs[q].pc = "done"
        /\ runs[r].goal_id = runs[q].goal_id
        /\ runs[r].day_number = runs[q].day_number) =>
         /\ Cardinality(RowsOf(episodes, r)) = 1
         /\ Cardinality(RowsOf(planItems, r)) = runs[r].planLen
         /\ Cardinality(RowsOf(quizItems, r)) = runs[r].quizLen
         /\ \A i \in RowsOf(planItems, r) :
              /\ planItems[i].goal_id = runs[r].goal_id
              /\ planItems[i].day_number = runs[r].day_number
         /\ \A i \in RowsOf(quizItems, r) :
              /\ quizItems[i].goal_id = runs[r].goal_id
              /\ quizItems[i].day_number = runs[r].day_number
              /\ quizItems[i].status = "delivered"
         /\ Cardinality({i \in Ids(episodes) :
                           /\ episodes[i].goal_id = runs[r].goal_id
                           /\ episodes[i].day_number = runs[r].day_number}) >= 2

\* Two completed calls for the same (goal, day) that overlapped: the first
\* committed its plan first and its Episode last.
ConcurrentRunsBothCompleteWitness ==
  \E r, q \in Ids(runs) :
    /\ r # q
    /\ runs[r].pc = "done" /\ runs[q].pc = "done"
    /\ runs[r].goal_id = runs[q].goal_id
    /\ runs[r].day_number = runs[q].day_number
    /\ \E i \in RowsOf(planItems, r), j \in RowsOf(planItems, q) : i < j
    /\ \E i \in RowsOf(quizItems, r), j \in RowsOf(quizItems, q) : j < i
    /\ \E i \in RowsOf(episodes, r), j \in RowsOf(episodes, q) : j < i

(***************************************************************************)
(* The step in which the submit_quiz_answer call c commits.                *)
(***************************************************************************)
SubmitStep(c) == c \in Ids(submits) /\ submits[c].pc = "commit" /\ submits'[c].pc = "done"

\* The submissions committed to quiz item q, in commit order (one process).
Submitted(q) == SelectSeq(submits, LAMBDA call : call.pc = "done" /\ call.quiz_id = q)

(***************************************************************************)
(* C11: every quiz item has status answered if and only if its             *)
(* learner_answer is not null; a quiz item run_day created and nobody      *)
(* answered is delivered with a null learner_answer.                       *)
(***************************************************************************)
AnsweredIffLearnerAnswer ==
  \A i \in Ids(quizItems) :
    /\ quizItems[i].status \in QuizStatus
    /\ quizItems[i].status = "answered" <=> quizItems[i].learner_answer # None
    /\ Submitted(i) = <<>> =>
         quizItems[i].status = "delivered" /\ quizItems[i].learner_answer = None

\* An answered quiz item beside one still delivered.
AnsweredIffLearnerAnswerWitness ==
  \E i, j \in Ids(quizItems) :
    /\ quizItems[i].status = "answered" /\ quizItems[i].learner_answer # None
    /\ quizItems[j].status = "delivered" /\ quizItems[j].learner_answer = None

(***************************************************************************)
(* C12: a submission to an existing quiz item leaves it answered with the  *)
(* submitted text, and the verdict and feedback of that text; whatever was *)
(* submitted before, the item is what one submission of the last answer to *)
(* the delivered item gives, and an answered item stays answered.          *)
(***************************************************************************)
\* The item once created, after the single submission of answer.
AnsweredOnce(row, answer) ==
  [row EXCEPT
     !.learner_answer = <<answer>>,
     !.is_correct = <<EvaluateAnswer(row.answer, answer).is_correct>>,
     !.feedback = <<EvaluateAnswer(row.answer, answer).feedback>>,
     !.status = "answered"]

LastAnswerStands ==
  \A i \in Ids(quizItems) :
    LET past == Submitted(i)
    IN  past # <<>> =>
          quizItems[i] =
            AnsweredOnce([quizItems[i] EXCEPT !.learner_answer = None, !.is_correct = None,
                                              !.feedback = None, !.status = "delivered"],
                         past[Len(past)].answer)

SubmitStepOverwrites ==
  /\ \A c \in Ids(submits) :
       SubmitStep(c) =>
         LET q == submits[c].quiz_id
         IN  /\ quizItems[q].status \in {"delivered", "answered"}
             /\ quizItems'[q].status = "answered"
             /\ quizItems'[q].learner_answer = <<submits[c].answer>>
             /\ quizItems'[q].is_correct # None /\ quizItems'[q].feedback # None
  /\ \A i \in Ids(quizItems) :
       quizItems[i].status = "answered" => quizItems'[i].status = "answered"

ResubmissionOverwrites == [](LastAnswerStands) /\ [][SubmitStepOverwrites]_vars

\* A quiz item answered wrongly, then rightly: it holds the second verdict.
ResubmissionOverwritesWitness ==
  \E i \in Ids(quizItems) :
    /\ Len(Submitted(i)) = 2
    /\ Submitted(i)[1].answer = WrongAnswer
    /\ Submitted(i)[2].answer = RightAnswer
    /\ quizItems[i].is_correct = <<TRUE>>

(***************************************************************************)
(* C14: a submission changes nothing but learner_answer, is_correct,       *)
(* feedback and status of the quiz item it addresses; no step changes the  *)
(* question or the answer of a quiz item.                                  *)
(***************************************************************************)
SubmitStepFrame ==
  /\ \A c \in Ids(submits) :
       SubmitStep(c) =>
         LET q == submits[c].quiz_id
         IN  /\ Len(quizItems') = Len(quizItems)
             /\ \A i \in Ids(quizItems) : i # q => quizItems'[i] = quizItems[i]
             /\ [quizItems'[q] EXCEPT !.learner_answer = None, !.is_correct = None,
                                      !.feedback = None, !.status = "delivered"]
                  = [quizItems[q] EXCEPT !.learner_answer = None, !.is_correct = None,
                                         !.feedback = None, !.status = "delivered"]
             /\ <<goals, planItems, resources, episodes, vectorIndex>>'
                  = <<goals, planItems, resources, episodes, vectorIndex>>
  /\ \A i \in Ids(quizItems) :
       /\ quizItems'[i].question = quizItems[i].question
       /\ quizItems'[i].answer = quizItems[i].answer

SubmitTouchesOneQuizItem == [][SubmitStepFrame]_vars

\* An answered quiz item in a store that holds another quiz item, plan
\* items, resources and Episodes.
SubmitTouchesOneQuizItemWitness ==
  /\ \E i, j \in Ids(quizItems) :
       /\ i # j
       /\ quizItems[i].status = "answered" /\ Submitted(i) # <<>>
       /\ quizItems[i].answer = <<"a", "1">>
  /\ planItems # <<>> /\ resources # <<>> /\ Len(episodes) >= 2

(***************************************************************************)
(* C15: submit_quiz_answer with the id of no quiz item, and get_goal with  *)
(* the id of no goal, end NotFound; the step changes nothing in the store  *)
(* or the vector index.                                                    *)
(***************************************************************************)
MissingIdStep ==
  /\ (Len(submits') = Len(submits) + 1
        /\ submits'[Len(submits')].quiz_id \notin Ids(quizItems)) =>
       /\ submits'[Len(submits')].pc = "notfound"
       /\ store' = store /\ vectorIndex' = vectorIndex
  /\ (Len(calls') = Len(calls) + 1
        /\ calls'[Len(calls')].op = "get_goal"
        /\ calls'[Len(calls')].arg[1] \notin Ids(goals)) =>
       /\ calls'[Len(calls')].raised = "NotFound"
       /\ store' = store /\ vectorIndex' = vectorIndex

\* A call that ended NotFound answered nothing and never commits.
NotFoundCallsDidNothing ==
  /\ \A c \in Ids(submits) :
       /\ submits[c].pc = "notfound" => submits[c].loaded = None
       /\ submits[c].pc # "notfound" => submits[c].quiz_id \in Ids(quizItems)
  /\ \A i \in Ids(quizItems) :
       Submitted(i) = <<>> => quizItems[i] \in {StoredQuiz(i, None), StoredQuiz(i, Some(RightAnswer))}

MissingIdsAreNotFound == [](NotFoundCallsDidNothing) /\ [][MissingIdStep]_vars

\* Both calls ended NotFound on a store that holds goals and quiz items.
MissingIdsAreNotFoundWitness ==
  /\ \E c \in Ids(submits) : submits[c].pc = "notfound"
  /\ \E k \in Ids(calls) : calls[k].op = "get_goal" /\ calls[k].raised = "NotFound"
  /\ goals # <<>> /\ quizItems # <<>>

(***************************************************************************)
(* C13: once the submit_quiz_answer calls on a quiz item have committed,   *)
(* its learner_answer, is_correct and feedback are the three values one of *)
(* those calls wrote: the text of that call with the verdict and feedback  *)
(* of that text.                                                           *)
(***************************************************************************)
ConcurrentSubmitsNoMixture ==
  \A i \in Ids(quizItems) :
    (Submitted(i) # <<>> /\ \A c \in Answering : submits[c].quiz_id # i) =>
      \E k \in 1..Len(Submitted(i)) :
        LET answer == Submitted(i)[k].answer
        IN  /\ quizItems[i].learner_answer = <<answer>>
            /\ quizItems[i].is_correct = <<EvaluateAnswer(quizItems[i].answer, answer).is_correct>>
            /\ quizItems[i].feedback = <<EvaluateAnswer(quizItems[i].answer, answer).feedback>>

(***************************************************************************)
(* C16: a search provider call that fails inside the researcher is         *)
(* absorbed: no run_day call ends because a provider call raised.          *)
(***************************************************************************)
ProviderFailureAbsorbed ==
  \A r \in Ids(runs) : ~(runs[r].pc = "failed" /\ runs[r].raised = "ProviderError")

(***************************************************************************)
(* C17: the researcher called with a goal whose id is null raises          *)
(* InvalidState: it made no search-provider call and no upsert_resources   *)
(* call, returned no resource, and left the vector index and the store as  *)
(* they were.                                                              *)
(***************************************************************************)
NullGoalCall(call) == call.op = "researcher.run" /\ call.arg = None

NullGoalCallDidNothing ==
  \A k \in Ids(calls) :
    NullGoalCall(calls[k]) =>
      /\ calls[k].raised = "InvalidState"
      /\ calls[k].searches = 0
      /\ calls[k].upserts = 0
      /\ calls[k].resources = <<>>

NullGoalStep ==
  (Len(calls') = Len(calls) + 1 /\ NullGoalCall(calls'[Len(calls')])) =>
    store' = store /\ vectorIndex' = vectorIndex

NullGoalFailsFirst == [](NullGoalCallDidNothing) /\ [][NullGoalStep]_vars

\* The call on a null goal id with plan items to search for.
NullGoalFailsFirstWitness ==
  \E k \in Ids(calls) :
    NullGoalCall(calls[k]) /\ calls[k].raised = "InvalidState" /\ calls[k].given >= 3

(***************************************************************************)
(* C18: every Resource of the store has a vector_id, which is an id of the *)
(* vector index; no step changes the vector_id of a Resource, and a        *)
(* second upsert of the Resources of the store leaves each with the        *)
(* vector_id it had.                                                       *)
(***************************************************************************)
VectorIdsSet ==
  /\ \A i \in Ids(resources) :
       /\ resources[i].vector_id # None
       /\ \E entry \in vectorIndex : entry.id = resources[i].vector_id[1]
  /\ \A k \in Ids(calls) :
       calls[k].op = "upsert_resources" =>
         \A j \in 1..Len(calls[k].resources) :
           calls[k].resources[j].vector_id = resources[j].vector_id

VectorIdsKept ==
  /\ Len(resources') >= Len(resources)
  /\ \A i \in Ids(resources) : resources'[i].vector_id = resources[i].vector_id

VectorIdSetOnce == [](VectorIdsSet) /\ [][VectorIdsKept]_vars

\* Resources of two calls, those of the first scored by the curator, after
\* a second upsert.
VectorIdSetOnceWitness ==
  /\ \E k \in Ids(calls) : calls[k].op = "upsert_resources" /\ calls[k].resources # <<>>
  /\ \E i, j \in Ids(resources) :
       /\ resources[i].run # resources[j].run
       /\ resources[i].relevance_score # None

(***************************************************************************)
(* C19: after the curate stage of a call, the resource at 0-based position *)
(* i of the call's resources has the score max(1, 10 - i) in tenths: the   *)
(* first has 10, none is below 1, and the scores never rise along the      *)
(* list.                                                                   *)
(***************************************************************************)
\* 0-based position of resource i among the resources of its call.
Position(i) == Cardinality({j \in RowsOf(resources, resources[i].run) : j < i})

ScoresDecayToFloor ==
  \A r \in Ids(runs) :
    (\E n \in 1..Len(runs[r].committed) : runs[r].committed[n] = "curate") =>
      \A i \in RowsOf(resources, r) :
        /\ resources[i].relevance_score =
             <<IF 10 - Position(i) >= 1 THEN 10 - Position(i) ELSE 1>>
        /\ Position(i) = 0 => resources[i].relevance_score = <<10>>
        /\ resources[i].relevance_score[1] >= 1
        /\ \A j \in RowsOf(resources, r) :
             j < i => resources[j].relevance_score[1] >= resources[i].relevance_score[1]

\* Twelve scored resources of one call: the last two are at the floor.
ScoresDecayToFloorWitness ==
  \E i \in Ids(resources) :
    /\ Position(i) = 11
    /\ resources[i].relevance_score = <<1>>
    /\ \E j \in Ids(resources) :
         /\ resources[j].run = resources[i].run
         /\ Position(j) = 9
         /\ resources[j].relevance_score = <<1>>

(***************************************************************************)
(* C20: the curate stage of a call keeps the resources: the store has as   *)
(* many Resources after it as before, the call holds the same resources in *)
(* the same order, every Resource is the same row but for its score, every *)
(* Resource of the call has a score and no Resource of another call is     *)
(* changed.                                                                *)
(***************************************************************************)
CurateStep(r) == r \in Ids(runs) /\ runs[r].pc = "curate" /\ runs'[r].pc = "quiz"

CurateStepKeepsResources ==
  \A r \in Ids(runs) :
    CurateStep(r) =>
      /\ Len(resources') = Len(resources)
      /\ runs'[r].res = runs[r].res
      /\ \A i \in Ids(resources) :
           /\ [resources'[i] EXCEPT !.relevance_score = None]
                = [resources[i] EXCEPT !.relevance_score = None]
           /\ resources[i].run # r => resources'[i] = resources[i]
           /\ resources[i].run = r => resources'[i].relevance_score # None

CuratorKeepsResources == [][CurateStepKeepsResources]_vars

\* A call past its curate stage, its twelve resources scored, beside the
\* resources of another call.
CuratorKeepsResourcesWitness ==
  \E r \in Ids(runs) :
    /\ runs[r].pc = "quiz"
    /\ Cardinality(RowsOf(resources, r)) = 12
    /\ \A i \in RowsOf(resources, r) : resources[i].relevance_score # None
    /\ \E i \in Ids(resources) : resources[i].run # r

(***************************************************************************)
(* C21: the tutor stage of a call persists between 1 and 3 quiz items:     *)
(* the numbered records of the completion, at most three of them, or one   *)
(* synthetic record whose answer is the first 150 characters of the        *)
(* summary; each is delivered with learner_answer, is_correct and feedback *)
(* null, and the quiz items already in the store are unchanged.            *)
(***************************************************************************)
QuizStep(r) == r \in Ids(runs) /\ runs[r].pc = "quiz" /\ runs'[r].pc = "reflect"

TutorStepDelivers ==
  \A r \in Ids(runs) :
    QuizStep(r) =>
      LET new == SubSeq(quizItems', Len(quizItems) + 1, Len(quizItems'))
          summary == runs[r].summary
      IN  /\ Len(new) >= 1 /\ Len(new) <= 3
          /\ SubSeq(quizItems', 1, Len(quizItems)) = quizItems
          /\ \A i \in 1..Len(new) :
               /\ new[i].goal_id = runs[r].goal_id
               /\ new[i].day_number = runs[r].day_number
               /\ new[i].status = "delivered"
               /\ new[i].learner_answer = None
               /\ new[i].is_correct = None
               /\ new[i].feedback = None
          /\ \/ \A i \in 1..Len(new) :
                  new[i].question = <<"q", Digit(i)>> /\ new[i].answer = <<"a", Digit(i)>>
             \/ /\ Len(new) = 1
                /\ new[1].question = FallbackQuestion
                /\ new[1].answer = SubSeq(summary, 1, IF Len(summary) < 150 THEN Len(summary) ELSE 150)

TutorRowsBounded ==
  \A r \in Ids(runs) :
    (\E n \in 1..Len(runs[r].committed) : runs[r].committed[n] = "quiz") =>
      /\ Cardinality(RowsOf(quizItems, r)) >= 1
      /\ Cardinality(RowsOf(quizItems, r)) <= 3

TutorDeliversOneToThree == [](TutorRowsBounded) /\ [][TutorStepDelivers]_vars

\* A call whose completion had four records beside a call whose completion
\* had none and whose summary was longer than 150 characters.
TutorDeliversOneToThreeWitness ==
  \E r, q \in Ids(runs) :
    /\ Cardinality(RowsOf(quizItems, r)) = 3
    /\ \E i \in RowsOf(quizItems, q) :
         /\ quizItems[i].question = FallbackQuestion
         /\ quizItems[i].answer = Rep("s", 150)

(***************************************************************************)
(* C22: the commit of a submission stores is_correct true exactly when     *)
(* 10 * |E \cap G| >= 4 * max(1, |E|), E and G being the sets of lowered   *)
(* whitespace-separated tokens of the reference answer and of the given    *)
(* answer; the feedback is "Great job!" when correct and otherwise         *)
(* "Focus on covering: " followed by the tokens of E \ G sorted, joined by *)
(* spaces and cut to 120 characters.  "space time continuum" against       *)
(* "space time" is correct, against "banana" it is incorrect with          *)
(* continuum, space, time listed.                                          *)
(***************************************************************************)
MaxOf(a, b) == IF a >= b THEN a ELSE b

MissingTokens(E, G) ==
  LET missing == Join(Sorted(E \ G), <<" ">>)
  IN  SubSeq(missing, 1, IF Len(missing) < 120 THEN Len(missing) ELSE 120)

ContinuumSpaceTime ==
  <<"F", "o", "c", "u", "s", " ", "o", "n", " ", "c", "o", "v", "e", "r", "i", "n", "g", ":", " ", "c", "o", "n", "t", "i", "n", "u", "u", "m", " ", "s", "p", "a", "c", "e", " ", "t", "i", "m", "e">>

EvaluationStored(c) ==
  LET q == submits[c].quiz_id
      row == quizItems'[q]
      E == Tokens(quizItems[q].answer)
      G == Tokens(submits[c].answer)
      correct == 10 * Cardinality(E \cap G) >= 4 * MaxOf(1, Cardinality(E))
  IN  /\ row.is_correct = Some(correct)
      /\ correct => row.feedback = Some(GreatJob)
      /\ ~correct => row.feedback = Some(FocusOnCovering \o MissingTokens(E, G))
      /\ (quizItems[q].answer = SpaceTimeContinuum /\ submits[c].answer = SpaceTime)
           => row.is_correct = Some(TRUE)
      /\ (quizItems[q].answer = SpaceTimeContinuum /\ submits[c].answer = Banana)
           => row.is_correct = Some(FALSE) /\ row.feedback = Some(ContinuumSpaceTime)

EvaluateStep == \A c \in Ids(submits) : SubmitStep(c) => EvaluationStored(c)

EvaluateAnswerByTokenOverlap == [][EvaluateStep]_vars

\* The reference answer of five long tokens was answered with two of them
\* (passing at exactly 0.4) and then with one (failing, the list of the four
\* missing tokens cut at 120 characters).
EvaluateAnswerByTokenOverlapWitness ==
  /\ Len(submits) = 2
  /\ submits[1].pc = "done" /\ submits[2].pc = "done"
  /\ submits[1].quiz_id = 1 /\ submits[2].quiz_id = 1
  /\ quizItems[1].answer = LongReference
  /\ Len(submits[1].answer) = 61
  /\ submits[2].answer = LongToken("a")
  /\ quizItems[1].is_correct = Some(FALSE)
  /\ Len(quizItems[1].feedback[1]) = Len(FocusOnCovering) + 120

(***************************************************************************)
(* C23: get_plan(goal, day) returns each plan item of that goal (of that   *)
(* day when a day is given) exactly once and nothing else, in ascending    *)
(* order of (day_number, sequence), and leaves the store unchanged.        *)
(***************************************************************************)
GetPlanStep ==
  /\ Len(calls') = Len(calls) + 1
  /\ calls'[Len(calls')].op = "get_plan"

KeyAscends(a, b) ==
  \/ planItems[a].day_number < planItems[b].day_number
  \/ /\ planItems[a].day_number = planItems[b].day_number
     /\ planItems[a].sequence <= planItems[b].sequence

GetPlanAnswer ==
  GetPlanStep =>
    LET call == calls'[Len(calls')]
        g == call.arg[1]
        rows == call.resources
        wanted == {i \in Ids(planItems) :
                     /\ planItems[i].goal_id = g
                     /\ Len(call.arg) = 2 => planItems[i].day_number = call.arg[2]}
    IN  /\ {rows[k] : k \in 1..Len(rows)} = wanted
        /\ Len(rows) = Cardinality(wanted)
        /\ \A k \in 1..(Len(rows) - 1) : KeyAscends(rows[k], rows[k + 1])
        /\ call.raised = "none"
        /\ store' = store
        /\ runs' = runs /\ submits' = submits

GetPlanReturnsOrderedPlan == [][GetPlanAnswer]_vars

\* A call without a day returned the four items of goal 2 and none of
\* goal 1, day 1 first, although day 2 was planned before day 1.
GetPlanReturnsOrderedPlanWitness ==
  /\ \E i, j \in Ids(planItems) :
       /\ i < j /\ planItems[i].goal_id = 2 /\ planItems[j].goal_id = 2
       /\ planItems[i].day_number = 2 /\ planItems[j].day_number = 1
  /\ \E i \in Ids(planItems) : planItems[i].goal_id = 1
  /\ \E k \in Ids(calls) :
       /\ calls[k].op = "get_plan" /\ calls[k].arg = <<2>>
       /\ Len(calls[k].resources) = 4
       /\ calls[k].resources[1] > calls[k].resources[4]

(***************************************************************************)
(* C24: the previous items a call run_day(G, D) hands to the planner are   *)
(* the plan items of every earlier call for (G, D) that committed its plan *)
(* stage, whether that call completed or failed later, and nothing else:   *)
(* none on the first call for that day, no item of another day or goal.    *)
(***************************************************************************)
PlanCommitted(q) == \E n \in 1..Len(runs[q].committed) : runs[q].committed[n] = "plan"

EarlierPlans(r) ==
  UNION {RowsOf(planItems, q) :
           q \in {q \in 1..(r - 1) :
                    /\ runs[q].goal_id = runs[r].goal_id
                    /\ runs[q].day_number = runs[r].day_number
                    /\ PlanCommitted(q)}}

PreviousItemsAtPlanner ==
  \A r \in Ids(runs) :
    runs[r].pc = "plan" =>
      /\ runs[r].previous = EarlierPlans(r)
      /\ \A i \in runs[r].previous :
           /\ planItems[i].goal_id = runs[r].goal_id
           /\ planItems[i].day_number = runs[r].day_number
      /\ (\A q \in 1..(r - 1) :
            runs[q].goal_id = runs[r].goal_id /\ runs[q].day_number = runs[r].day_number
              => ~PlanCommitted(q))
           => runs[r].previous = {}

\* A call is at its planner with the two items of an earlier call for the
\* same day that failed after its plan commit.
PreviousItemsAtPlannerWitness ==
  \E r \in Ids(runs), q \in Ids(runs) :
    /\ q < r /\ runs[r].pc = "plan"
    /\ runs[q].pc = "failed" /\ PlanCommitted(q)
    /\ runs[q].goal_id = runs[r].goal_id /\ runs[q].day_number = runs[r].day_number
    /\ Cardinality(runs[r].previous) = 2

(***************************************************************************)
(* C25: the Episode a call persists describes that call only: its planner  *)
(* summary is the numbered tasks of the plan items the call created, in    *)
(* order; its resource count is the number of resources the call stored;   *)
(* its tutor summary joins the questions of the quiz items the call        *)
(* created; its reflection is the text whose note line the call wrote on   *)
(* the future plan items.  Rows of earlier calls for the same (goal, day)  *)
(* are not counted.                                                        *)
(***************************************************************************)
EpisodeStep(r) == r \in Ids(runs) /\ runs[r].pc = "episode" /\ runs'[r].pc = "done"

RunRows(table, r) == SelectSeq(table, LAMBDA row : row.run = r)

NumberedTasks(rows) ==
  Join([i \in 1..Len(rows) |-> IntStr(rows[i].sequence) \o <<".", " ">> \o rows[i].task],
       <<"\n">>)

EpisodeStepOwnRows ==
  \A r \in Ids(runs) :
    EpisodeStep(r) =>
      LET e == episodes'[Len(episodes')]
          g == runs[r].goal_id
          d == runs[r].day_number
          quiz == RunRows(quizItems, r)
      IN  /\ Len(episodes') = Len(episodes) + 1
          /\ e.goal_id = g /\ e.day_number = d
          /\ e.planner_summary = NumberedTasks(RunRows(planItems, r))
          /\ e.researcher_summary = Len(RunRows(resources, r))
          /\ e.tutor_summary = Join([i \in 1..Len(quiz) |-> quiz[i].question], <<";", " ">>)
          /\ e.reflection # <<>> =>
               \A i \in Ids(planItems) :
                 (planItems[i].goal_id = g /\ planItems[i].day_number > d)
                   => IsSuffix(RStrip(ClaimedNote(d, e.reflection)), planItems[i].notes)

EpisodeDescribesOwnRun == [][EpisodeStepOwnRows]_vars

\* The second completed call for one (goal, day): its Episode lists two
\* tasks and counts two resources while the store holds four of each for
\* that day.
EpisodeDescribesOwnRunWitness ==
  \E q, r \in Ids(runs) :
    /\ q < r /\ runs[q].pc = "done" /\ runs[r].pc = "done"
    /\ runs[q].goal_id = runs[r].goal_id /\ runs[q].day_number = runs[r].day_number
    /\ Cardinality(RowsOf(planItems, q)) = 2
    /\ \E k \in Ids(episodes) :
         /\ episodes[k].run = r
         /\ episodes[k].researcher_summary = 2
         /\ episodes[k].planner_summary =
              <<"1", ".", " ", "t", "1", "\n", "2", ".", " ", "t", "2">>

(***************************************************************************)
(* C26: a goal whose status is still new has no plan item, resource, quiz  *)
(* item or Episode, and a goal for which a call has committed its plan     *)
(* stage is active, also when the planner returned no item and when the    *)
(* call failed later; the plan items and the status are written by the     *)
(* same step.                                                              *)
(***************************************************************************)
OfGoal(table, g) == {i \in Ids(table) : table[i].goal_id = g}

NewGoalsAreEmpty ==
  \A g \in Ids(goals) :
    goals[g].status = "new" =>
      /\ OfGoal(planItems, g) = {} /\ OfGoal(resources, g) = {}
      /\ OfGoal(quizItems, g) = {} /\ OfGoal(episodes, g) = {}

PlannedGoalsAreActive ==
  \A r \in Ids(runs) :
    (\E n \in 1..Len(runs[r].committed) : runs[r].committed[n] = "plan")
      => goals[runs[r].goal_id].status = "active"

PlanStepSetsBoth ==
  \A r \in Ids(runs) :
    (runs[r].pc = "plan" /\ runs'[r].pc # "plan") =>
      \/ /\ runs'[r].pc = "failed"
         /\ planItems' = planItems /\ goals' = goals
      \/ /\ runs'[r].pc = "research"
         /\ goals'[runs[r].goal_id].status = "active"
         /\ Len(planItems') = Len(planItems) + runs'[r].planLen
         /\ \A i \in (Len(planItems) + 1)..Len(planItems') : planItems'[i].run = r

PlanAndStatusTogether ==
  [](NewGoalsAreEmpty /\ PlannedGoalsAreActive) /\ [][PlanStepSetsBoth]_vars

\* A call whose planner returned nothing failed after its plan commit and
\* its goal is active; another goal is still new.
PlanAndStatusTogetherWitness ==
  /\ \E r \in Ids(runs) :
       /\ runs[r].pc = "failed" /\ runs[r].planLen = 0
       /\ runs[r].committed = <<"plan">>
       /\ goals[runs[r].goal_id].status = "active"
  /\ \E g \in Ids(goals) : goals[g].status = "new"

(***************************************************************************)
(* C27: reflection hints accumulate and are never replaced.  A plan item   *)
(* of goal G and day d carries one "Reflection applied on day" line and    *)
(* one Focus suffix for every call for G with a day below d that rewrote   *)
(* the future items, with a non-empty reflection, after the item was       *)
(* created; calling day N k times adds k lines and k Focus suffixes.       *)
(***************************************************************************)
Occurrences(pattern, text) ==
  Cardinality({k \in 1..(Len(text) - Len(pattern) + 1) :
                 text[k] = pattern[1] /\ SubSeq(text, k, k + Len(pattern) - 1) = pattern})

\* The reflection a call applied: held by the call until its Episode is
\* stored, by the Episode afterwards.
ReflectionOf(q) ==
  IF runs[q].pc = "episode" THEN runs[q].reflection
  ELSE IF \E k \in Ids(episodes) : episodes[k].run = q
       THEN episodes[CHOOSE k \in Ids(episodes) : episodes[k].run = q].reflection
       ELSE <<>>

\* The calls whose rewrite reached plan item i.
Rewriters(i) ==
  {q \in Ids(runs) :
     /\ q > planItems[i].run
     /\ runs[q].goal_id = planItems[i].goal_id
     /\ runs[q].day_number < planItems[i].day_number
     /\ ReflectionOf(q) # <<>>}

HintsCountedPerRun ==
  \A i \in Ids(planItems) :
    /\ Occurrences(NotePrefix, planItems[i].notes) = Cardinality(Rewriters(i))
    /\ Occurrences(FocusOpen, planItems[i].task) = Cardinality(Rewriters(i))

(***************************************************************************)
(* With one server process the lines are counted as C27 says, and the      *)
(* Focus suffixes are those of the calls whose reflection has a non-empty  *)
(* first sentence.                                                         *)
(***************************************************************************)
HintsCountedSerially ==
  \A i \in Ids(planItems) :
    /\ Occurrences(NotePrefix, planItems[i].notes) = Cardinality(Rewriters(i))
    /\ Occurrences(FocusOpen, planItems[i].task) =
         Cardinality({q \in Rewriters(i) : ClaimedFocus(ReflectionOf(q)) # <<>>})

(***************************************************************************)
(* C29: when two calls run_day for one goal and different days both        *)
(* rewrite the same future plan item, the item ends with both Focus        *)
(* suffixes and both "Reflection applied on day" lines, however their read *)
(* and commit steps interleave.                                            *)
(***************************************************************************)
BothRewritesKept ==
  \A q, r \in Ids(runs), i \in Ids(planItems) :
    (/\ runs[q].pc = "done" /\ runs[r].pc = "done"
     /\ runs[q].day_number = 1 /\ runs[r].day_number = 2
     /\ planItems[i].goal_id = 1 /\ planItems[i].day_number = 3)
      => /\ Occurrences(NotePrefix \o <<"1">>, planItems[i].notes) >= 1
         /\ Occurrences(NotePrefix \o <<"2">>, planItems[i].notes) >= 1
         /\ Occurrences(FocusOpen, planItems[i].task) >= 2

(***************************************************************************)
(* C28: whenever no call is in progress, every "Reflection applied on day  *)
(* N" line in the notes of a plan item of goal G is the line of an Episode *)
(* of (G, N): the note line built from that Episode's reflection.  The     *)
(* rewrite and the Episode are never left one without the other, also when *)
(* a call fails.                                                           *)
(***************************************************************************)
LineAt(text, k, line) ==
  /\ k + Len(line) - 1 <= Len(text)
  /\ SubSeq(text, k, k + Len(line) - 1) = line

EveryLineHasItsEpisode ==
  Active = {} =>
    \A i \in Ids(planItems) :
      \A k \in 1..Len(planItems[i].notes) :
        LineAt(planItems[i].notes, k, NotePrefix) =>
          \E n \in Ids(episodes) :
            /\ episodes[n].goal_id = planItems[i].goal_id
            /\ LineAt(planItems[i].notes, k,
                      RStrip(ClaimedNote(episodes[n].day_number, episodes[n].reflection)))

(***************************************************************************)
(* C30: in every reachable state a quiz item is either delivered with      *)
(* learner_answer, is_correct and feedback null, or answered with          *)
(* is_correct and feedback equal to the evaluation of its learner_answer   *)
(* against its stored answer.                                              *)
(***************************************************************************)
QuizFieldsAgree ==
  \A i \in Ids(quizItems) :
    LET quiz == quizItems[i]
    IN  \/ /\ quiz.status = "delivered"
           /\ quiz.learner_answer = None
           /\ quiz.is_correct = None
           /\ quiz.feedback = None
        \/ /\ quiz.status = "answered"
           /\ quiz.learner_answer # None
           /\ quiz.is_correct = Some(EvaluateAnswer(quiz.answer, quiz.learner_answer[1]).is_correct)
           /\ quiz.feedback = Some(EvaluateAnswer(quiz.answer, quiz.learner_answer[1]).feedback)

(***************************************************************************)
(* C31: the vector index and the relational store stay consistent across   *)
(* the research stage, also on failure: for every goal the vector ids in   *)
(* the index are exactly the vector ids of the goal's stored Resources.    *)
(* Stated for the states in which no call is in progress, the weakest      *)
(* reading of "every reachable state".                                     *)
(***************************************************************************)
IndexedIds(g) == {entry.id : entry \in {x \in vectorIndex : x.goal_id = g}}

StoredVectorIds(g) ==
  {resources[i].vector_id[1] :
     i \in {i \in Ids(resources) : resources[i].goal_id = g /\ resources[i].vector_id # None}}

IndexMatchesStore ==
  Active = {} => \A g \in Ids(goals) : IndexedIds(g) = StoredVectorIds(g)

====
